---------------------------- MODULE Spec2Model ----------------------------
(***************************************************************************)
(* Model of the agentBattle evolution visualisers (src/src/utils).         *)
(*                                                                         *)
(*   Spec      load_evolution_data, reconstruct_balance_timeline and the   *)
(*             insufficient-data check of                                  *)
(*             visualize_evolution_comprehensive                           *)
(*             (visualize_evolution_tree.py, lines 17-92 and 485-506).     *)
(*   SpecTree  create_evolution_tree (visualize_evolution_tree.py,         *)
(*             lines 170-253): collection pass, trivial-lineage check,     *)
(*             edge pass, generation grouping.                             *)
(*   SpecLineage  create_evolution_tree again, started after a first       *)
(*             tournament whose roster of up to MaxCore distinct           *)
(*             strategies has been collected.                              *)
(*   SpecAnalyze  analyze_balance_timeline (simple_balance_visualizer.py). *)
(*   SpecTimelineStats  the statistics of visualize_balance_timeline       *)
(*             (visualize_balance_timeline.py, lines 64-91).               *)
(*   SpecOptional  reconstruct_balance_timeline and create_evolution_tree  *)
(*             applied to one tournament record whose optional             *)
(*             collections may be omitted.                                 *)
(*   SpecRuns  several snapshots processed one after the other.            *)
(*   SpecStandings  the GameNumber column and the final standings          *)
(*             (visualize_evolution_tree.py, lines 100-122 and 536-549;    *)
(*             visualize_from_progress.py, lines 61-62 and 122-134).       *)
(*   SpecDetails  create_strategy_details_table's search for a strategy's  *)
(*             final performance (visualize_evolution_tree.py, 394-443).   *)
(*                                                                         *)
(* The JSON lists a function iterates over are read one element per step:  *)
(* the element is drawn from a small set when the loop reaches it, and the *)
(* part of the list read so far is kept in tournament_data.  A Python dict *)
(* is a function whose DOMAIN is its key set; a key that may be missing is *)
(* a field that may be missing, read with Get (dict.get).                  *)
(***************************************************************************)
EXTENDS Integers, Sequences, FiniteSets, TLC

VARIABLES
    pc,                 \* position in the program
    data,               \* the loaded snapshot (top-level keys)
    balance_timeline,   \* strategy id -> [name, archetype, dataPoints]
    tournament_data,    \* the tournaments iterated so far
    tournaments_left,   \* tournaments of the list not yet iterated
    tournaments_completed,
    tournament_num,     \* loop locals of the function being run
    game_number,
    strategy,
    impact,
    log,                \* messages printed, in order
    results,            \* files saved by visualize_evolution_comprehensive
    elems,              \* list elements read one by one so far (<= MaxElems)
    all_strategies,     \* create_evolution_tree: id -> info
    order,              \* insertion order of all_strategies' keys
    first_reg,          \* history: each id's info at its first registration
    G,                  \* networkx DiGraph: [nodes, attrs, edges]
    visited,            \* keys of all_strategies the second pass has visited
    generations,        \* first_seen -> node ids
    returned,           \* what the function returned
    rows,               \* the rows read from the balance-timeline CSV
    strategies,         \* strategy name -> its rows
    todo,               \* strategy names the statistics loop has yet to visit
    strategy_stats,     \* the statistics records computed so far
    report,             \* the lines printed for the strategies
    runs                \* what each whole-snapshot run returned, in order

timelineVars == <<data, balance_timeline, tournaments_completed, strategy,
                  impact, log, results>>
treeVars == <<all_strategies, order, first_reg, G, visited, generations,
              returned>>
statsVars == <<rows, strategies, todo, strategy_stats, report>>
runVars == <<runs>>
vars == <<pc, tournament_data, tournaments_left, tournament_num, game_number,
          elems, timelineVars, treeVars, statsVars, runVars>>

---------------------------------------------------------------------------
(* Bounds of the model. *)

\* Longest tournament list of a snapshot.
MaxTournaments == 2
\* Roster entries, games, impacts and evolution entries read in one run.
MaxElems == 4
\* Largest roster of the tournament SpecLineage starts after.
MaxCore == 6
\* Snapshots processed one after the other under SpecRuns.
MaxRuns == 2
\* Data points of the strategy whose final standing SpecStandings computes.
MaxPoints == 3

---------------------------------------------------------------------------
(* Program constants. *)

\* 'balance': strategy.get('coinBalance', 500)
DEFAULT_BALANCE == 500
\* 'isEliminated': new_balance < 100
ELIMINATION_THRESHOLD == 100
\* weight = parent_info.get('weight', 50)
DEFAULT_WEIGHT == 50
\* if len(all_strategies) <= 6 and all(is_core)
SIMPLE_DISPLAY_MAX == 6

---------------------------------------------------------------------------
(* Python helpers. *)

\* dict.get(key, default)
Get(r, k, d) == IF k \in DOMAIN r THEN r[k] ELSE d

\* {} : the empty dict
EmptyDict == [k \in {} |-> k]

\* A loop variable before the first iteration binds it.
Unbound == EmptyDict

\* seq[-1]
Last(s) == s[Len(s)]

\* d[k] = v on a dict
Put(d, k, v) == [x \in DOMAIN d \cup {k} |-> IF x = k THEN v ELSE d[x]]

\* The elements of a list.
Range(s) == { s[i] : i \in 1..Len(s) }

\* nx.DiGraph()
EmptyGraph == [nodes |-> <<>>, attrs |-> EmptyDict, edges |-> EmptyDict]

---------------------------------------------------------------------------
(* Inputs: the values the JSON documents are drawn from. *)

\* Entries of a tournament's 'strategies' list.  coinBalance and archetype
\* are optional keys.
StrategyEntries ==
    { [id |-> "s1", name |-> "A"],
      [id |-> "s1", name |-> "A", archetype |-> "AGGRESSIVE", coinBalance |-> 50],
      [id |-> "s2", name |-> "B", archetype |-> "CAUTIOUS", coinBalance |-> 130] }

\* Entries of a game's 'economicImpact' list.  Every key is optional.
ImpactEntries ==
    { [strategyId |-> "s1", profit |-> 50, isWinner |-> TRUE],
      [strategyId |-> "s1", profit |-> -450],
      [strategyId |-> "s2", profit |-> -30, isWinner |-> FALSE] }

\* A tournament's start: 'tournamentNumber' is an optional key.
TournamentHeads == { EmptyDict, [tournamentNumber |-> 1] }

\* A game's start: 'gameNumber' is an optional key.
GameHeads == { EmptyDict, [gameNumber |-> 1] }

\* A supplied 'balanceTimeline': empty, or one of two non-empty timelines.
GivenTimelines ==
    { EmptyDict,
      [s9 |-> [name |-> "Z", archetype |-> "UNKNOWN", dataPoints |-> <<>>]],
      [s9 |-> [name |-> "Z", archetype |-> "UNKNOWN", dataPoints |->
          << [tournament |-> 1, game |-> 1, balance |-> 40, profit |-> -460,
              isWinner |-> FALSE, isEliminated |-> FALSE],
             [tournament |-> 1, game |-> 0, balance |-> 500, profit |-> 0,
              isWinner |-> FALSE, isEliminated |-> FALSE] >>]] }

\* The top-level keys of a snapshot.  A list-valued key is given by its
\* length: the list's elements are read as the loops reach them.
OptKey(k, values) == { EmptyDict } \cup { [x \in {k} |-> v] : v \in values }

Merge(a, b) == [x \in DOMAIN a \cup DOMAIN b |-> IF x \in DOMAIN a THEN a[x] ELSE b[x]]

SnapshotsWithoutCount ==
    { Merge(bt, Merge(td, ts)) :
        bt \in OptKey("balanceTimeline", GivenTimelines),
        td \in OptKey("tournamentData", {0, 1}),
        ts \in OptKey("tournaments", {MaxTournaments}) }

\* A 'completedTournaments' that is the length of neither list.
COMPLETED_GIVEN == 5

\* The snapshots read by Spec: the ones above, and the ones among them whose
\* timeline is not reconstructed with a 'completedTournaments' key added.
Snapshots ==
    SnapshotsWithoutCount \cup
    { Merge(d, [completedTournaments |-> COMPLETED_GIVEN]) :
        d \in { x \in SnapshotsWithoutCount :
                   \/ Get(x, "balanceTimeline", EmptyDict) # EmptyDict
                   \/ Get(x, "tournamentData", Get(x, "tournaments", 0)) = 0 } }

---------------------------------------------------------------------------
(* load_evolution_data and reconstruct_balance_timeline. *)

\* Variant of SelectTournamentData: an empty 'tournamentData' falls back to
\* 'tournaments', as `data.get('tournamentData') or data.get(...)` would.
SelectTournamentData_NonEmpty(d) ==
    IF Get(d, "tournamentData", 0) > 0 THEN d["tournamentData"]
    ELSE Get(d, "tournaments", 0)

\* tournament_data = data.get('tournamentData', data.get('tournaments', []))
\* as the length of the selected list.
SelectTournamentData(d) == Get(d, "tournamentData", Get(d, "tournaments", 0))

\* tournaments_completed = data.get('completedTournaments', len(tournament_data))
TournamentsCompleted(d) == Get(d, "completedTournaments", SelectTournamentData(d))

\* Variant of NeedsReconstruction: the supplied timeline is not consulted.
NeedsReconstruction_Always(bt, n) == n > 0

\* if not balance_timeline and tournament_data:
NeedsReconstruction(bt, n) == bt = EmptyDict /\ n > 0

\* Variant of IsEliminated: the threshold itself eliminates.
IsEliminated_Inclusive(balance) == balance <= ELIMINATION_THRESHOLD

\* 'isEliminated': new_balance < 100
IsEliminated(balance) == balance < ELIMINATION_THRESHOLD

\* The dict appended for a roster entry.
SeedPoint(tnum, s) ==
    [tournament |-> tnum, game |-> 0,
     balance |-> Get(s, "coinBalance", DEFAULT_BALANCE),
     profit |-> 0, isWinner |-> FALSE, isEliminated |-> FALSE]

\* The entry created for a strategy id not yet in balance_timeline.
NewTimeline(s) ==
    [name |-> s.name, archetype |-> Get(s, "archetype", "UNKNOWN"),
     dataPoints |-> <<>>]

\* Variant of AddStartingStrategy: the seed is appended on the first
\* appearance only.
AddStartingStrategy_FirstOnly(bt, tnum, s) ==
    IF s.id \in DOMAIN bt THEN bt
    ELSE Put(bt, s.id,
             [NewTimeline(s) EXCEPT !.dataPoints = <<SeedPoint(tnum, s)>>])

\* The body of `for strategy in starting_strategies`.
AddStartingStrategy(bt, tnum, s) ==
    LET entry == IF s.id \in DOMAIN bt THEN bt[s.id] ELSE NewTimeline(s)
    IN  Put(bt, s.id,
            [entry EXCEPT !.dataPoints = Append(@, SeedPoint(tnum, s))])

\* Variant of ImpactPoint: the profit is added to the first recorded balance.
ImpactPoint_FromFirst(points, tnum, gnum, imp) ==
    LET new_balance == points[1].balance + Get(imp, "profit", 0)
    IN  [tournament |-> tnum, game |-> gnum, balance |-> new_balance,
         profit |-> Get(imp, "profit", 0),
         isWinner |-> Get(imp, "isWinner", FALSE),
         isEliminated |-> IsEliminated(new_balance)]

\* The dict appended for an impact on a strategy that has a timeline.
ImpactPoint(points, tnum, gnum, imp) ==
    LET last_balance == Last(points).balance
        new_balance == last_balance + Get(imp, "profit", 0)
    IN  [tournament |-> tnum, game |-> gnum, balance |-> new_balance,
         profit |-> Get(imp, "profit", 0),
         isWinner |-> Get(imp, "isWinner", FALSE),
         isEliminated |-> IsEliminated(new_balance)]

\* Variant of ApplyImpact: an unknown strategy id gets a timeline, started
\* from the default balance.
ApplyImpact_CreatingEntry(bt, tnum, gnum, imp) ==
    LET strategy_id == Get(imp, "strategyId", "")
        points == IF strategy_id \in DOMAIN bt THEN bt[strategy_id].dataPoints
                  ELSE << [balance |-> DEFAULT_BALANCE] >>
        entry == IF strategy_id \in DOMAIN bt THEN bt[strategy_id]
                 ELSE [name |-> strategy_id, archetype |-> "UNKNOWN",
                       dataPoints |-> <<>>]
    IN  Put(bt, strategy_id,
            [entry EXCEPT !.dataPoints =
                 Append(@, ImpactPoint(points, tnum, gnum, imp))])

\* The body of `for impact in economic_impacts`.
ApplyImpact(bt, tnum, gnum, imp) ==
    LET strategy_id == Get(imp, "strategyId", "")
    IN  IF strategy_id \in DOMAIN bt
        THEN [bt EXCEPT ![strategy_id].dataPoints =
                  Append(@, ImpactPoint(@, tnum, gnum, imp))]
        ELSE bt

\* Variant of InsufficientData: the tournament list is not consulted.
InsufficientData_TimelineOnly(bt, n) == bt = EmptyDict

\* if not balance_timeline or not tournament_data:
InsufficientData(bt, n) == bt = EmptyDict \/ n = 0

\* df.empty: no timeline has a data point.
NoDataPoints(bt) == \A k \in DOMAIN bt : bt[k].dataPoints = <<>>

\* len(tournament_data) of the list returned by load_evolution_data.
TournamentCount == Len(tournament_data) + tournaments_left

---------------------------------------------------------------------------
(* Actions of Spec. *)

\* No CSV has been read and no snapshot has been processed as a whole.
StatsIdleInit ==
    /\ runs = <<>>
    /\ rows = <<>>
    /\ strategies = EmptyDict
    /\ todo = <<>>
    /\ strategy_stats = <<>>
    /\ report = <<>>

TreeIdle == UNCHANGED <<treeVars, statsVars, runVars>>

\* load_evolution_data, lines 21-35: read the snapshot, pick the tournament
\* list, decide whether to reconstruct.
Load(d) ==
    /\ pc = "start"
    /\ data' = d
    /\ tournaments_left' = SelectTournamentData(d)
    /\ tournaments_completed' = TournamentsCompleted(d)
    /\ IF NeedsReconstruction(Get(d, "balanceTimeline", EmptyDict),
                              SelectTournamentData(d))
       THEN /\ balance_timeline' = EmptyDict
            /\ log' = log \o <<"found", "reconstructing">>
            /\ pc' = "rb_tournaments"
       ELSE /\ balance_timeline' = Get(d, "balanceTimeline", EmptyDict)
            /\ log' = Append(log, "found")
            /\ pc' = "loaded"
    /\ UNCHANGED <<tournament_data, tournament_num, game_number, strategy,
                   impact, results, elems>>
    /\ TreeIdle

\* for tournament in tournament_data:
NextTournament(t) ==
    /\ pc = "rb_tournaments"
    /\ tournaments_left > 0
    /\ tournaments_left' = tournaments_left - 1
    /\ tournament_num' = Get(t, "tournamentNumber", 0)
    /\ tournament_data' =
           Append(tournament_data, Merge(t, [strategies |-> <<>>, games |-> <<>>]))
    /\ pc' = "rb_roster"
    /\ UNCHANGED <<game_number, elems, timelineVars>>
    /\ TreeIdle

\* for strategy in starting_strategies:
StartingStrategy(s) ==
    /\ pc = "rb_roster"
    /\ elems < MaxElems
    /\ elems' = elems + 1
    /\ strategy' = s
    /\ tournament_data' =
           [tournament_data EXCEPT ![Len(tournament_data)].strategies = Append(@, s)]
    /\ balance_timeline' = AddStartingStrategy(balance_timeline, tournament_num, s)
    /\ UNCHANGED <<pc, data, tournaments_left, tournaments_completed,
                   tournament_num, game_number, impact, log, results>>
    /\ TreeIdle

\* The roster is exhausted: games = tournament.get('games', [])
EndRoster ==
    /\ pc = "rb_roster"
    /\ pc' = "rb_games"
    /\ UNCHANGED <<tournament_data, tournaments_left, tournament_num,
                   game_number, elems, timelineVars>>
    /\ TreeIdle

\* for game in games:
NextGame(g) ==
    /\ pc = "rb_games"
    /\ elems < MaxElems
    /\ elems' = elems + 1
    /\ game_number' = Get(g, "gameNumber", 0)
    /\ tournament_data' =
           [tournament_data EXCEPT ![Len(tournament_data)].games =
                Append(@, Merge(g, [economicImpact |-> <<>>]))]
    /\ pc' = "rb_impacts"
    /\ UNCHANGED <<tournaments_left, tournament_num, timelineVars>>
    /\ TreeIdle

\* The games are exhausted: back to the tournament loop.
EndGames ==
    /\ pc = "rb_games"
    /\ pc' = "rb_tournaments"
    /\ UNCHANGED <<tournament_data, tournaments_left, tournament_num,
                   game_number, elems, timelineVars>>
    /\ TreeIdle

\* for impact in economic_impacts:
EconomicImpact(i) ==
    /\ pc = "rb_impacts"
    /\ elems < MaxElems
    /\ elems' = elems + 1
    /\ impact' = i
    /\ tournament_data' =
           [tournament_data EXCEPT
                ![Len(tournament_data)].games[Len(Last(tournament_data).games)]
                    .economicImpact = Append(@, i)]
    /\ balance_timeline' = ApplyImpact(balance_timeline, tournament_num, game_number, i)
    /\ UNCHANGED <<pc, data, tournaments_left, tournaments_completed,
                   tournament_num, game_number, strategy, log, results>>
    /\ TreeIdle

\* The impacts are exhausted: back to the game loop.
EndImpacts ==
    /\ pc = "rb_impacts"
    /\ pc' = "rb_games"
    /\ UNCHANGED <<tournament_data, tournaments_left, tournament_num,
                   game_number, elems, timelineVars>>
    /\ TreeIdle

\* return balance_timeline (line 92), then lines 36-38 of load_evolution_data.
ReturnTimeline ==
    /\ pc = "rb_tournaments"
    /\ tournaments_left = 0
    /\ log' = Append(log, "reconstructed")
    /\ pc' = "loaded"
    /\ UNCHANGED <<data, balance_timeline, tournament_data, tournaments_left,
                   tournaments_completed, tournament_num, game_number,
                   strategy, impact, results, elems>>
    /\ TreeIdle

\* visualize_evolution_comprehensive, lines 491-493: return None.
Insufficient ==
    /\ pc = "loaded"
    /\ InsufficientData(balance_timeline, TournamentCount)
    /\ log' = Append(log, "insufficient")
    /\ pc' = "returned_none"
    /\ UNCHANGED <<data, balance_timeline, tournament_data, tournaments_left,
                   tournaments_completed, tournament_num, game_number,
                   strategy, impact, results, elems>>
    /\ TreeIdle

\* visualize_evolution_comprehensive, lines 495-506: the balance chart.
\* create_balance_evolution_chart returns None when no timeline has a data
\* point, and `df, color_map = None` raises TypeError.
BalanceChart ==
    /\ pc = "loaded"
    /\ ~InsufficientData(balance_timeline, TournamentCount)
    /\ IF NoDataPoints(balance_timeline)
       THEN /\ pc' = "raised"
            /\ results' = results
       ELSE /\ pc' = "chart_saved"
            /\ results' = Append(results, "balance_chart")
    /\ UNCHANGED <<data, balance_timeline, tournament_data, tournaments_left,
                   tournaments_completed, tournament_num, game_number,
                   strategy, impact, log, elems>>
    /\ TreeIdle

Init ==
    /\ pc = "start"
    /\ data = EmptyDict
    /\ balance_timeline = EmptyDict
    /\ tournament_data = <<>>
    /\ tournaments_left = 0
    /\ tournaments_completed = 0
    /\ tournament_num = 0
    /\ game_number = 0
    /\ strategy = Unbound
    /\ impact = Unbound
    /\ log = <<>>
    /\ results = <<>>
    /\ elems = 0
    /\ all_strategies = EmptyDict
    /\ order = <<>>
    /\ first_reg = EmptyDict
    /\ G = EmptyGraph
    /\ visited = 0
    /\ generations = EmptyDict
    /\ returned = "nothing"
    /\ StatsIdleInit

Next ==
    \/ \E d \in Snapshots : Load(d)
    \/ \E t \in TournamentHeads : NextTournament(t)
    \/ \E s \in StrategyEntries : StartingStrategy(s)
    \/ EndRoster
    \/ \E g \in GameHeads : NextGame(g)
    \/ EndGames
    \/ \E i \in ImpactEntries : EconomicImpact(i)
    \/ EndImpacts
    \/ ReturnTimeline
    \/ Insufficient
    \/ BalanceChart

Spec == Init /\ [][Next]_vars

---------------------------------------------------------------------------
(* create_evolution_tree: inputs. *)

\* Entries of a 'strategies' list as create_evolution_tree reads them.
\* s1 and s2 are two strategies with the same name.
TreeStrategyEntries ==
    { [id |-> "s1", name |-> "A", archetype |-> "AGGRESSIVE"],
      [id |-> "s2", name |-> "A", archetype |-> "CAUTIOUS"] }

\* Parent references: 'weight' is an optional key.
RefA70 == [name |-> "A", weight |-> 70]
RefANoWeight == [name |-> "A"]
RefA150 == [name |-> "A", weight |-> 150]
RefE70 == [name |-> "E", weight |-> 70]
RefGhost == [name |-> "Ghost", weight |-> 30]

\* Entries of evolutionDetails.created: 'parents' is an optional key.
CreatedEntries ==
    { [id |-> "e1", name |-> "E", archetype |-> "EVOLVED",
       parents |-> <<RefA150, RefGhost>>],
      [id |-> "e1", name |-> "E", archetype |-> "EVOLVED",
       parents |-> <<RefE70, RefANoWeight>>],
      [id |-> "s1", name |-> "A", archetype |-> "EVOLVED"] }

\* Entries of strategiesEvolved: every key is optional.
EvolvedEntries ==
    { [id |-> "e2", name |-> "A", basedOn |-> <<RefA70>>],
      [id |-> "s1", name |-> "A", basedOn |-> <<RefGhost>>],
      [name |-> "E"] }

---------------------------------------------------------------------------
(* create_evolution_tree: the collection pass. *)

\* A dict with insertion order: assigning to a new key appends the key.
KeyOrder(all, ord, k) == IF k \in DOMAIN all THEN ord ELSE Append(ord, k)

\* The info stored for a roster strategy.
CoreInfo(s, tnum) ==
    [name |-> s.name, archetype |-> s.archetype, first_seen |-> tnum,
     strategy_text |-> Get(s, "strategy", ""), is_core |-> TRUE]

\* The info stored for an entry of evolutionDetails.created.
CreatedInfo(c, tnum) ==
    [name |-> c.name, archetype |-> c.archetype, first_seen |-> tnum,
     strategy_text |-> Get(c, "strategy", ""),
     parents |-> Get(c, "parents", <<>>),
     avoiding |-> Get(c, "avoiding", ""), is_core |-> FALSE]

\* The info stored for an entry of strategiesEvolved.
EvolvedInfo(e, tnum) ==
    [name |-> Get(e, "name", "Unknown Evolved"),
     archetype |-> Get(e, "archetype", "EVOLVED"), first_seen |-> tnum,
     strategy_text |-> Get(e, "strategy", ""),
     parents |-> Get(e, "basedOn", <<>>),
     avoiding |-> Get(e, "avoiding", ""), is_core |-> FALSE]

\* for strategy in tournament.get('strategies', []): if id not in all_strategies
RegisterCore(all, s, tnum) ==
    IF s.id \notin DOMAIN all THEN Put(all, s.id, CoreInfo(s, tnum)) ELSE all

\* for created in evolution_details.get('created', []): all_strategies[id] = ...
RegisterCreated(all, c, tnum) == Put(all, c.id, CreatedInfo(c, tnum))

\* for evolved in evolved_strategies: if strategy_id and id not in all_strategies
RegisterEvolved(all, e, tnum) ==
    LET strategy_id == Get(e, "id", "")
    IN  IF strategy_id # "" /\ strategy_id \notin DOMAIN all
        THEN Put(all, strategy_id, EvolvedInfo(e, tnum))
        ELSE all

\* Variant of IsSimpleDisplay: six strategies are already too many.
IsSimpleDisplay_BelowSix(all) ==
    /\ Cardinality(DOMAIN all) < SIMPLE_DISPLAY_MAX
    /\ \A k \in DOMAIN all : Get(all[k], "is_core", TRUE)

\* if len(all_strategies) <= 6 and all(s.get('is_core', True) ...)
IsSimpleDisplay(all) ==
    /\ Cardinality(DOMAIN all) <= SIMPLE_DISPLAY_MAX
    /\ \A k \in DOMAIN all : Get(all[k], "is_core", TRUE)

---------------------------------------------------------------------------
(* create_evolution_tree: the edge pass. *)

\* G.add_node(n, **attrs): a new node is appended, attributes are updated.
AddNode(g, n, attrs) ==
    [g EXCEPT !.nodes = IF n \in Range(@) THEN @ ELSE Append(@, n),
              !.attrs = Put(@, n, attrs)]

\* A node that G.add_edge creates has no attributes.
TouchNode(g, n) ==
    IF n \in Range(g.nodes) THEN g ELSE AddNode(g, n, EmptyDict)

\* G.add_edge(u, v, weight=w): both ends become nodes, the weight of an
\* existing edge is overwritten.
AddEdge(g, u, v, w) ==
    [TouchNode(TouchNode(g, u), v) EXCEPT !.edges = Put(@, <<u, v>>, w)]

\* Variant of FirstByName: the last key, in insertion order, with that name.
FirstByName_Last(all, ord, parent_name) ==
    LET hits == { i \in 1..Len(ord) : all[ord[i]].name = parent_name }
    IN  IF hits = {} THEN <<>>
        ELSE << ord[CHOOSE i \in hits : \A j \in hits : i >= j] >>

\* for pid, pinfo in all_strategies.items(): if pinfo['name'] == parent_name
\* ... break : the first key, in insertion order, with that name, as a list
\* of at most one id.
FirstByName(all, ord, parent_name) ==
    LET hits == { i \in 1..Len(ord) : all[ord[i]].name = parent_name }
    IN  IF hits = {} THEN <<>>
        ELSE << ord[CHOOSE i \in hits : \A j \in hits : i <= j] >>

\* weight = parent_info.get('weight', 50)
EdgeWeight(parent_info) == Get(parent_info, "weight", DEFAULT_WEIGHT)

\* Variant of AddParentEdge: a name that resolves to no node becomes the
\* parent end of the edge itself.
AddParentEdge_Dangling(g, all, ord, strategy_id, parent_info) ==
    LET found == FirstByName(all, ord, Get(parent_info, "name", ""))
    IN  IF found = <<>>
        THEN AddEdge(g, Get(parent_info, "name", ""), strategy_id,
                     EdgeWeight(parent_info))
        ELSE AddEdge(g, found[1], strategy_id, EdgeWeight(parent_info))

\* The edge one parent reference adds, if its name resolves.
AddParentEdge(g, all, ord, strategy_id, parent_info) ==
    LET found == FirstByName(all, ord, Get(parent_info, "name", ""))
    IN  IF found = <<>> THEN g
        ELSE AddEdge(g, found[1], strategy_id, EdgeWeight(parent_info))

\* for parent_info in info['parents']:
RECURSIVE AddParentEdges(_, _, _, _, _)
AddParentEdges(g, all, ord, strategy_id, parents) ==
    IF parents = <<>> THEN g
    ELSE AddParentEdges(AddParentEdge(g, all, ord, strategy_id, Head(parents)),
                        all, ord, strategy_id, Tail(parents))

\* Variant of GraphStep: a strategy without a parent list is linked from the
\* strategy registered first.
GraphStep_LinkingCore(g, all, ord, strategy_id) ==
    LET info == all[strategy_id]
        withNode == AddNode(g, strategy_id, info)
        parents == IF "parents" \in DOMAIN info THEN info.parents
                   ELSE << [name |-> all[ord[1]].name] >>
    IN  AddParentEdges(withNode, all, ord, strategy_id, parents)

\* The body of `for strategy_id, info in all_strategies.items()`.
GraphStep(g, all, ord, strategy_id) ==
    LET info == all[strategy_id]
        withNode == AddNode(g, strategy_id, info)
    IN  IF "parents" \in DOMAIN info /\ info.parents # <<>>
        THEN AddParentEdges(withNode, all, ord, strategy_id, info.parents)
        ELSE withNode

\* Variant of GroupGenerations: a node's group is the number of edges that
\* enter it.
RECURSIVE GroupGenerations_ByInDegree(_, _, _)
GroupGenerations_ByInDegree(gens, g, nodes) ==
    IF nodes = <<>> THEN gens
    ELSE LET gen == Cardinality({ e \in DOMAIN g.edges : e[2] = Head(nodes) })
             old == IF gen \in DOMAIN gens THEN gens[gen] ELSE <<>>
         IN  GroupGenerations_ByInDegree(Put(gens, gen, Append(old, Head(nodes))),
                                         g, Tail(nodes))

\* for node_id, data in G.nodes(data=True): generations[gen].append(node_id)
RECURSIVE GroupGenerations(_, _, _)
GroupGenerations(gens, g, nodes) ==
    IF nodes = <<>> THEN gens
    ELSE LET gen == Get(g.attrs[Head(nodes)], "first_seen", 0)
             old == IF gen \in DOMAIN gens THEN gens[gen] ELSE <<>>
         IN  GroupGenerations(Put(gens, gen, Append(old, Head(nodes))), g,
                              Tail(nodes))

---------------------------------------------------------------------------
(* Actions of SpecTree. *)

TimelineIdle == UNCHANGED <<timelineVars, statsVars, runVars>>

\* for tournament in tournament_data:
TreeNextTournament(t) ==
    /\ pc = "ct_tournaments"
    /\ tournaments_left > 0
    /\ tournaments_left' = tournaments_left - 1
    /\ tournament_num' = Get(t, "tournamentNumber", 0)
    /\ tournament_data' =
           Append(tournament_data,
                  Merge(t, [strategies |-> <<>>, created |-> <<>>,
                            strategiesEvolved |-> <<>>]))
    /\ pc' = "ct_roster"
    /\ UNCHANGED <<game_number, elems, treeVars>>
    /\ TimelineIdle

\* for strategy in tournament.get('strategies', []):
TreeStrategy(s) ==
    /\ pc = "ct_roster"
    /\ elems < MaxElems
    /\ elems' = elems + 1
    /\ tournament_data' =
           [tournament_data EXCEPT ![Len(tournament_data)].strategies = Append(@, s)]
    /\ all_strategies' = RegisterCore(all_strategies, s, tournament_num)
    /\ order' = KeyOrder(all_strategies, order, s.id)
    /\ first_reg' = IF s.id \in DOMAIN first_reg THEN first_reg
                    ELSE Put(first_reg, s.id, all_strategies'[s.id])
    /\ UNCHANGED <<pc, tournaments_left, tournament_num, game_number, G,
                   visited, generations, returned>>
    /\ TimelineIdle

\* The roster is exhausted: evolution_details = tournament.get(...)
TreeEndRoster ==
    /\ pc = "ct_roster"
    /\ pc' = "ct_created"
    /\ UNCHANGED <<tournament_data, tournaments_left, tournament_num,
                   game_number, elems, treeVars>>
    /\ TimelineIdle

\* for created in evolution_details.get('created', []):
TreeCreated(c) ==
    /\ pc = "ct_created"
    /\ elems < MaxElems
    /\ elems' = elems + 1
    /\ tournament_data' =
           [tournament_data EXCEPT ![Len(tournament_data)].created = Append(@, c)]
    /\ all_strategies' = RegisterCreated(all_strategies, c, tournament_num)
    /\ order' = KeyOrder(all_strategies, order, c.id)
    /\ first_reg' = IF c.id \in DOMAIN first_reg THEN first_reg
                    ELSE Put(first_reg, c.id, all_strategies'[c.id])
    /\ UNCHANGED <<pc, tournaments_left, tournament_num, game_number, G,
                   visited, generations, returned>>
    /\ TimelineIdle

\* The created list is exhausted: evolved_strategies = tournament.get(...)
TreeEndCreated ==
    /\ pc = "ct_created"
    /\ pc' = "ct_evolved"
    /\ UNCHANGED <<tournament_data, tournaments_left, tournament_num,
                   game_number, elems, treeVars>>
    /\ TimelineIdle

\* for evolved in evolved_strategies:
TreeEvolved(e) ==
    /\ pc = "ct_evolved"
    /\ elems < MaxElems
    /\ elems' = elems + 1
    /\ tournament_data' =
           [tournament_data EXCEPT ![Len(tournament_data)].strategiesEvolved =
                Append(@, e)]
    /\ all_strategies' = RegisterEvolved(all_strategies, e, tournament_num)
    /\ order' = IF DOMAIN all_strategies' = DOMAIN all_strategies THEN order
                ELSE Append(order, e.id)
    /\ first_reg' = IF DOMAIN all_strategies' = DOMAIN all_strategies THEN first_reg
                    ELSE Put(first_reg, e.id, all_strategies'[e.id])
    /\ UNCHANGED <<pc, tournaments_left, tournament_num, game_number, G,
                   visited, generations, returned>>
    /\ TimelineIdle

\* The evolved list is exhausted: back to the tournament loop.
TreeEndEvolved ==
    /\ pc = "ct_evolved"
    /\ pc' = "ct_tournaments"
    /\ UNCHANGED <<tournament_data, tournaments_left, tournament_num,
                   game_number, elems, treeVars>>
    /\ TimelineIdle

\* Lines 227-230: return create_simple_strategy_display(all_strategies, ...)
SimpleDisplay ==
    /\ pc = "ct_tournaments"
    /\ tournaments_left = 0
    /\ IsSimpleDisplay(all_strategies)
    /\ returned' = "simple_display"
    /\ pc' = "tree_done"
    /\ UNCHANGED <<tournament_data, tournaments_left, tournament_num,
                   game_number, elems, all_strategies, order, first_reg, G,
                   visited, generations>>
    /\ TimelineIdle

\* Line 232: the simple display does not apply, the second pass starts.
StartGraph ==
    /\ pc = "ct_tournaments"
    /\ tournaments_left = 0
    /\ ~IsSimpleDisplay(all_strategies)
    /\ pc' = "edges"
    /\ UNCHANGED <<tournament_data, tournaments_left, tournament_num,
                   game_number, elems, treeVars>>
    /\ TimelineIdle

\* Lines 233-245: one iteration of the second pass.
GraphNode ==
    /\ pc = "edges"
    /\ visited < Len(order)
    /\ visited' = visited + 1
    /\ G' = GraphStep(G, all_strategies, order, order[visited + 1])
    /\ UNCHANGED <<pc, tournament_data, tournaments_left, tournament_num,
                   game_number, elems, all_strategies, order, first_reg,
                   generations, returned>>
    /\ TimelineIdle

\* Lines 247-253 and 333: group the nodes by generation, return the graph.
Layout ==
    /\ pc = "edges"
    /\ visited = Len(order)
    /\ generations' = GroupGenerations(EmptyDict, G, G.nodes)
    /\ returned' = "graph"
    /\ pc' = "tree_done"
    /\ UNCHANGED <<tournament_data, tournaments_left, tournament_num,
                   game_number, elems, all_strategies, order, first_reg, G,
                   visited>>
    /\ TimelineIdle

\* create_evolution_tree(tournament_data, color_map) is called with a list
\* of up to MaxTournaments tournaments.
InitTree ==
    /\ pc = "ct_tournaments"
    /\ tournaments_left \in 0..MaxTournaments
    /\ data = EmptyDict
    /\ balance_timeline = EmptyDict
    /\ tournament_data = <<>>
    /\ tournaments_completed = 0
    /\ tournament_num = 0
    /\ game_number = 0
    /\ strategy = Unbound
    /\ impact = Unbound
    /\ log = <<>>
    /\ results = <<>>
    /\ elems = 0
    /\ all_strategies = EmptyDict
    /\ order = <<>>
    /\ first_reg = EmptyDict
    /\ G = EmptyGraph
    /\ visited = 0
    /\ generations = EmptyDict
    /\ returned = "nothing"
    /\ StatsIdleInit

NextTree ==
    \/ \E t \in TournamentHeads : TreeNextTournament(t)
    \/ \E s \in TreeStrategyEntries : TreeStrategy(s)
    \/ TreeEndRoster
    \/ \E c \in CreatedEntries : TreeCreated(c)
    \/ TreeEndCreated
    \/ \E e \in EvolvedEntries : TreeEvolved(e)
    \/ TreeEndEvolved
    \/ SimpleDisplay
    \/ StartGraph
    \/ GraphNode
    \/ Layout

SpecTree == InitTree /\ [][NextTree]_vars

---------------------------------------------------------------------------
(* create_evolution_tree after a first tournament without evolution.       *)

\* The roster of the first tournament: distinct ids, distinct names.
CoreIds == <<"c1", "c2", "c3", "c4", "c5", "c6", "c7", "c8">>
CoreNames == <<"N1", "N2", "N3", "N4", "N5", "N6", "N7", "N8">>

CoreRoster(n) ==
    [i \in 1..n |-> [id |-> CoreIds[i], name |-> CoreNames[i],
                     archetype |-> "CORE"]]

\* for strategy in tournament.get('strategies', []): the whole loop.
RECURSIVE RegisterRoster(_, _, _)
RegisterRoster(all, roster, tnum) ==
    IF roster = <<>> THEN all
    ELSE RegisterRoster(RegisterCore(all, Head(roster), tnum), Tail(roster), tnum)

\* The first tournament (number 1, roster of n strategies, no evolution
\* block) has been iterated; up to one more tournament follows.
InitLineage ==
    \E n \in 0..MaxCore :
        /\ pc = "ct_tournaments"
        /\ tournaments_left \in 0..1
        /\ tournament_data =
               << [tournamentNumber |-> 1, strategies |-> CoreRoster(n),
                   created |-> <<>>, strategiesEvolved |-> <<>>] >>
        /\ tournament_num = 1
        /\ all_strategies = RegisterRoster(EmptyDict, CoreRoster(n), 1)
        /\ order = [i \in 1..n |-> CoreIds[i]]
        /\ first_reg = all_strategies
        /\ data = EmptyDict
        /\ balance_timeline = EmptyDict
        /\ tournaments_completed = 0
        /\ game_number = 0
        /\ strategy = Unbound
        /\ impact = Unbound
        /\ log = <<>>
        /\ results = <<>>
        /\ elems = 0
        /\ G = EmptyGraph
        /\ visited = 0
        /\ generations = EmptyDict
        /\ returned = "nothing"
        /\ StatsIdleInit

SpecLineage == InitLineage /\ [][NextTree]_vars

---------------------------------------------------------------------------
(* The balance-timeline CSV and the statistics computed from it:           *)
(* analyze_balance_timeline (simple_balance_visualizer.py) and             *)
(* visualize_balance_timeline (visualize_balance_timeline.py).             *)
(*                                                                         *)
(* Python's floats are modelled by exact rationals [num, den], and a       *)
(* square root by the rational under the root.                             *)

\* if volatility > 60 / > 30
RISK_HIGH == 60
RISK_MED == 30
\* if change > 100 / > 0
REWARD_HIGH == 100
REWARD_MED == 0

\* One row of the CSV, as csv.DictReader and pandas.read_csv parse it.
CsvRow(name, id, t, g, bal, p, w) ==
    [Strategy |-> name, StrategyId |-> id, Tournament |-> t, Game |-> g,
     Balance |-> bal, Profit |-> p, IsWinner |-> w, IsEliminated |-> bal < 100]

\* The rows a CSV is made of.  s1 and s2 are two strategies named "A"; s3 is
\* a strategy whose seed row has balance 0 and IsWinner true.
CsvRows ==
    { CsvRow("A", "s1", 1, 0, 500, 0, FALSE),
      CsvRow("A", "s1", 1, 1, 610, 110, TRUE),
      CsvRow("A", "s1", 1, 2, 600, -10, FALSE),
      CsvRow("A", "s1", 1, 1, 530, 30, TRUE),
      CsvRow("A", "s1", 1, 2, 500, -30, FALSE),
      CsvRow("A", "s2", 2, 0, 300, 0, FALSE),
      CsvRow("B", "s3", 1, 0, 0, 0, TRUE),
      CsvRow("B", "s3", 1, 1, 40, 40, TRUE) }

\* a / b on floats, b # 0
Rat(a, b) == [num |-> a, den |-> b]

\* x ** 0.5
Sqrt(q) == [sqrt_of |-> q]

\* float('nan'), and float('inf') with its sign
NaN == [nan |-> TRUE]
Inf(sign) == [inf |-> sign]

\* v > k for a square root v and a constant k >= 0
SqrtGT(v, k) == v.sqrt_of.num > k * k * v.sqrt_of.den

\* sum(seq)
RECURSIVE SumOf(_)
SumOf(seq) == IF seq = <<>> THEN 0 ELSE Head(seq) + SumOf(Tail(seq))

\* [row['Profit'] for row in seq]
Profits(seq) == [i \in 1..Len(seq) |-> seq[i].Profit]

\* The sum of (p - mean) ** 2 over the profits, times len(profits) ** 2.
SquaredDeviations(profits) ==
    LET n == Len(profits)
        total == SumOf(profits)
    IN  SumOf([i \in 1..n |-> (n * profits[i] - total) * (n * profits[i] - total)])

\* The key of x.sort(key=lambda x: (x['Tournament'], x['Game'])): a <= b
KeyLeq(a, b) ==
    \/ a.Tournament < b.Tournament
    \/ a.Tournament = b.Tournament /\ a.Game <= b.Game

\* list.sort is stable: a row goes behind the rows whose key is not greater.
RECURSIVE InsertRow(_, _)
InsertRow(sorted, r) ==
    IF sorted = <<>> THEN <<r>>
    ELSE IF KeyLeq(Head(sorted), r)
         THEN <<Head(sorted)>> \o InsertRow(Tail(sorted), r)
         ELSE <<r>> \o sorted

RECURSIVE SortRows(_)
SortRows(seq) ==
    IF seq = <<>> THEN <<>>
    ELSE InsertRow(SortRows(SubSeq(seq, 1, Len(seq) - 1)), seq[Len(seq)])

\* The keys of the grouping, in the order of their first row.
RECURSIVE NamesInOrder(_, _)
NamesInOrder(seq, names) ==
    IF seq = <<>> THEN names
    ELSE NamesInOrder(Tail(seq),
                      IF Head(seq).Strategy \in Range(names) THEN names
                      ELSE Append(names, Head(seq).Strategy))

\* The rows of one strategy name, in file order.
RowsOf(seq, name) == SelectSeq(seq, LAMBDA r : r.Strategy = name)

\* strategies[row['Strategy']].append(row), then the sort of each list.
Organized(seq) ==
    [name \in Range(NamesInOrder(seq, <<>>)) |-> SortRows(RowsOf(seq, name))]

\* game_data = [row for row in strategy_data if row['Game'] > 0]
GameData(strategy_data) == SelectSeq(strategy_data, LAMBDA r : r.Game > 0)

\* max(row['Balance'] for row in strategy_data)
PeakBalance(strategy_data) ==
    CHOOSE b \in { strategy_data[i].Balance : i \in 1..Len(strategy_data) } :
        \A i \in 1..Len(strategy_data) : strategy_data[i].Balance <= b

\* sum((p - mean_profit) ** 2 for p in profits) / len(profits), with
\* mean_profit = sum(profits) / len(profits).
PopulationVariance(profits) ==
    LET n == Len(profits)
    IN  Rat(SquaredDeviations(profits), n * n * n)

\* Lines 67-76 of simple_balance_visualizer.py.
Volatility(strategy_data) ==
    LET profits == Profits(GameData(strategy_data))
    IN  IF profits # <<>> THEN Sqrt(PopulationVariance(profits))
        ELSE Sqrt(Rat(0, 1))

\* wins = sum(1 for row in game_data if row['IsWinner'])
Wins(game_data) == Len(SelectSeq(game_data, LAMBDA r : r.IsWinner))

\* win_rate = (wins / total_games) * 100 if total_games > 0 else 0
WinRate(wins, total_games) ==
    IF total_games > 0 THEN Rat(wins * 100, total_games) ELSE Rat(0, 1)

\* Variant of StrategyStatsRecord: final is the largest balance.
StrategyStatsRecord_FinalIsPeak(strategy_name, strategy_data) ==
    [name |-> strategy_name,
     start |-> strategy_data[1].Balance,
     final |-> PeakBalance(strategy_data),
     peak |-> PeakBalance(strategy_data),
     change |-> PeakBalance(strategy_data) - strategy_data[1].Balance,
     change_pct |-> Rat((PeakBalance(strategy_data) - strategy_data[1].Balance) * 100,
                        strategy_data[1].Balance),
     volatility |-> Volatility(strategy_data),
     wins |-> Wins(GameData(strategy_data)),
     total_games |-> Len(GameData(strategy_data)),
     win_rate |-> WinRate(Wins(GameData(strategy_data)),
                          Len(GameData(strategy_data))),
     data |-> strategy_data]

\* The dict appended to strategy_stats (lines 58-95), for start_balance # 0.
StrategyStatsRecord(strategy_name, strategy_data) ==
    LET start_balance == strategy_data[1].Balance
        final_balance == Last(strategy_data).Balance
        total_change == final_balance - start_balance
        game_data == GameData(strategy_data)
    IN  [name |-> strategy_name,
         start |-> start_balance,
         final |-> final_balance,
         peak |-> PeakBalance(strategy_data),
         change |-> total_change,
         change_pct |-> Rat(total_change * 100, start_balance),
         volatility |-> Volatility(strategy_data),
         wins |-> Wins(game_data),
         total_games |-> Len(game_data),
         win_rate |-> WinRate(Wins(game_data), Len(game_data)),
         data |-> strategy_data]

\* strategy_stats.sort(key=lambda x: x['final'], reverse=True): stable.
RECURSIVE InsertByFinal(_, _)
InsertByFinal(sorted, st) ==
    IF sorted = <<>> THEN <<st>>
    ELSE IF Head(sorted).final >= st.final
         THEN <<Head(sorted)>> \o InsertByFinal(Tail(sorted), st)
         ELSE <<st>> \o sorted

RECURSIVE SortByFinal(_)
SortByFinal(seq) ==
    IF seq = <<>> THEN <<>>
    ELSE InsertByFinal(SortByFinal(SubSeq(seq, 1, Len(seq) - 1)), seq[Len(seq)])

\* Variant of RiskLevel: the thresholds themselves belong to the upper tier.
RiskLevel_Inclusive(volatility) ==
    IF SqrtGT(volatility, RISK_HIGH) \/ volatility.sqrt_of.num
           = RISK_HIGH * RISK_HIGH * volatility.sqrt_of.den THEN "HIGH"
    ELSE IF SqrtGT(volatility, RISK_MED) \/ volatility.sqrt_of.num
           = RISK_MED * RISK_MED * volatility.sqrt_of.den THEN "MED"
    ELSE "LOW"

\* "HIGH" if stats['volatility'] > 60 else "MED" if ... > 30 else "LOW"
RiskLevel(volatility) ==
    IF SqrtGT(volatility, RISK_HIGH) THEN "HIGH"
    ELSE IF SqrtGT(volatility, RISK_MED) THEN "MED"
    ELSE "LOW"

\* "HIGH" if stats['change'] > 100 else "MED" if ... > 0 else "LOW"
RewardLevel(change) ==
    IF change > REWARD_HIGH THEN "HIGH"
    ELSE IF change > REWARD_MED THEN "MED"
    ELSE "LOW"

\* The line printed for one strategy by the risk-reward loop (173-177).
RiskRewardLine(stats) ==
    [name |-> stats.name, risk_level |-> RiskLevel(stats.volatility),
     reward_level |-> RewardLevel(stats.change)]

---------------------------------------------------------------------------
(* Actions of SpecAnalyze. *)

OthersIdle ==
    UNCHANGED <<tournament_data, tournaments_left, tournament_num,
                game_number, timelineVars, treeVars, runVars>>

\* for row in reader: data.append({...})
ReadRow(r) ==
    /\ pc = "csv_read"
    /\ elems < MaxElems
    /\ elems' = elems + 1
    /\ rows' = Append(rows, r)
    /\ UNCHANGED <<pc, strategies, todo, strategy_stats, report>>
    /\ OthersIdle

\* Lines 42-49: group the rows by row['Strategy'], sort each group.
Organize ==
    /\ pc = "csv_read"
    /\ strategies' = Organized(rows)
    /\ todo' = NamesInOrder(rows, <<>>)
    /\ pc' = "stats"
    /\ UNCHANGED <<elems, rows, strategy_stats, report>>
    /\ OthersIdle

\* Lines 57-95: one iteration of `for strategy_name, strategy_data in
\* strategies.items()`.  total_change / start_balance raises
\* ZeroDivisionError when the first row's balance is 0: the function is left
\* and strategy_stats, a local, is lost.
StrategyStats ==
    /\ pc = "stats"
    /\ todo # <<>>
    /\ IF strategies[Head(todo)][1].Balance = 0
       THEN /\ pc' = "raised"
            /\ strategy_stats' = <<>>
            /\ todo' = todo
       ELSE /\ pc' = pc
            /\ strategy_stats' =
                   Append(strategy_stats,
                          StrategyStatsRecord(Head(todo), strategies[Head(todo)]))
            /\ todo' = Tail(todo)
    /\ UNCHANGED <<elems, rows, strategies, report>>
    /\ OthersIdle

\* Lines 97-187: the ranking, the chart, the insights and the risk-reward
\* lines.  With no row at all, max() of an empty sequence raises ValueError
\* at line 119.
Report ==
    /\ pc = "stats"
    /\ todo = <<>>
    /\ IF strategy_stats = <<>>
       THEN /\ pc' = "raised"
            /\ UNCHANGED <<strategy_stats, report>>
       ELSE /\ pc' = "analysis_done"
            /\ strategy_stats' = SortByFinal(strategy_stats)
            /\ report' = [i \in 1..Len(strategy_stats) |->
                              RiskRewardLine(SortByFinal(strategy_stats)[i])]
    /\ UNCHANGED <<elems, rows, strategies, todo>>
    /\ OthersIdle

\* The CSV file is about to be read.
InitCsv ==
    /\ pc = "csv_read"
    /\ data = EmptyDict
    /\ balance_timeline = EmptyDict
    /\ tournament_data = <<>>
    /\ tournaments_left = 0
    /\ tournaments_completed = 0
    /\ tournament_num = 0
    /\ game_number = 0
    /\ strategy = Unbound
    /\ impact = Unbound
    /\ log = <<>>
    /\ results = <<>>
    /\ elems = 0
    /\ all_strategies = EmptyDict
    /\ order = <<>>
    /\ first_reg = EmptyDict
    /\ G = EmptyGraph
    /\ visited = 0
    /\ generations = EmptyDict
    /\ returned = "nothing"
    /\ StatsIdleInit

NextAnalyze ==
    \/ \E r \in CsvRows : ReadRow(r)
    \/ Organize
    \/ StrategyStats
    \/ Report

SpecAnalyze == InitCsv /\ [][NextAnalyze]_vars

---------------------------------------------------------------------------
(* visualize_balance_timeline: the statistics of lines 64-91. *)

\* The strategy names that have a row with Game > 0, and those with Game = 0.
NamesWithGames(seq) == { seq[i].Strategy : i \in { j \in 1..Len(seq) : seq[j].Game > 0 } }
NamesWithSeed(seq) == { seq[i].Strategy : i \in { j \in 1..Len(seq) : seq[j].Game = 0 } }

\* df[df['Game'] > 0].groupby('Strategy')['Balance'].last()
FinalBalances(seq) ==
    [name \in NamesWithGames(seq) |-> Last(GameData(RowsOf(seq, name))).Balance]

\* df[df['Game'] == 0].groupby('Strategy')['Balance'].first()
StartingBalances(seq) ==
    [name \in NamesWithSeed(seq) |->
        SelectSeq(RowsOf(seq, name), LAMBDA r : r.Game = 0)[1].Balance]

\* .sort_values(ascending=False): the index by descending final balance;
\* the order among equal balances is left open.
DescendingOrders(fb) ==
    { o \in [1..Cardinality(DOMAIN fb) -> DOMAIN fb] :
        /\ \A i, j \in DOMAIN o : i # j => o[i] # o[j]
        /\ \A i, j \in DOMAIN o : i < j => fb[o[i]] >= fb[o[j]] }

\* (change / start) * 100 on numpy scalars: division by zero gives inf, -inf
\* or nan with a RuntimeWarning, not an exception.
NumpyChangePct(change, start) ==
    IF start # 0 THEN Rat(change * 100, start)
    ELSE IF change > 0 THEN Inf(1)
    ELSE IF change < 0 THEN Inf(-1)
    ELSE NaN

\* profits.std(): pandas' sample standard deviation (ddof = 1), nan for
\* fewer than two values.
SampleStd(profits) ==
    LET n == Len(profits)
    IN  IF n < 2 THEN NaN
        ELSE Sqrt(Rat(SquaredDeviations(profits), n * n * (n - 1)))

\* The figures printed for one strategy (lines 72-90).
TimelineStatsLine(strategy_name, seq) ==
    LET start == StartingBalances(seq)[strategy_name]
        final == FinalBalances(seq)[strategy_name]
        change == final - start
        strategy_data == RowsOf(seq, strategy_name)
        wins == Len(SelectSeq(strategy_data, LAMBDA r : r.IsWinner))
        games == Len(GameData(strategy_data))
    IN  [name |-> strategy_name, start |-> start, final |-> final,
         change |-> change, change_pct |-> NumpyChangePct(change, start),
         volatility |-> SampleStd(Profits(GameData(strategy_data))),
         wins |-> wins, total_games |-> games,
         win_rate |-> IF games > 0 THEN Rat(wins * 100, games) ELSE Rat(0, 1)]

\* Lines 31-69: the chart is saved, final_balances and starting_balances
\* are computed.
SaveChart ==
    /\ pc = "csv_read"
    /\ \E o \in DescendingOrders(FinalBalances(rows)) : todo' = o
    /\ pc' = "vt_stats"
    /\ UNCHANGED <<elems, rows, strategies, strategy_stats, report>>
    /\ OthersIdle

\* Lines 71-91: one iteration of `for strategy in final_balances.index`.
\* starting_balances[strategy] raises KeyError for a strategy without a
\* Game = 0 row.
TimelineStats ==
    /\ pc = "vt_stats"
    /\ todo # <<>>
    /\ IF Head(todo) \in NamesWithSeed(rows)
       THEN /\ report' = Append(report, TimelineStatsLine(Head(todo), rows))
            /\ todo' = Tail(todo)
            /\ pc' = pc
       ELSE /\ pc' = "raised"
            /\ UNCHANGED <<report, todo>>
    /\ UNCHANGED <<elems, rows, strategies, strategy_stats>>
    /\ OthersIdle

\* return output_file
TimelineStatsDone ==
    /\ pc = "vt_stats"
    /\ todo = <<>>
    /\ pc' = "vt_done"
    /\ UNCHANGED <<elems, statsVars>>
    /\ OthersIdle

NextTimelineStats ==
    \/ \E r \in CsvRows : ReadRow(r)
    \/ SaveChart
    \/ TimelineStats
    \/ TimelineStatsDone

SpecTimelineStats == InitCsv /\ [][NextTimelineStats]_vars

---------------------------------------------------------------------------
(* reconstruct_balance_timeline and create_evolution_tree as functions of   *)
(* a whole tournament list.                                                *)

\* Variant of StartingStrategies: a tournament without the key gets a
\* roster of one placeholder strategy.
StartingStrategies_Placeholder(tournament) ==
    Get(tournament, "strategies",
        << [id |-> "s0", name |-> "Placeholder", archetype |-> "UNKNOWN"] >>)

\* tournament.get('strategies', [])
StartingStrategies(tournament) == Get(tournament, "strategies", <<>>)

\* tournament.get('games', [])
Games(tournament) == Get(tournament, "games", <<>>)

\* game.get('economicImpact', [])
EconomicImpacts(game) == Get(game, "economicImpact", <<>>)

\* tournament.get('evolutionDetails', {}).get('created', [])
CreatedList(tournament) ==
    Get(Get(tournament, "evolutionDetails", EmptyDict), "created", <<>>)

\* tournament.get('strategiesEvolved', [])
EvolvedStrategies(tournament) == Get(tournament, "strategiesEvolved", <<>>)

\* for strategy in starting_strategies: the whole loop (lines 49-68).
RECURSIVE AddStartingStrategies(_, _, _)
AddStartingStrategies(bt, tnum, roster) ==
    IF roster = <<>> THEN bt
    ELSE AddStartingStrategies(AddStartingStrategy(bt, tnum, Head(roster)),
                               tnum, Tail(roster))

\* for impact in economic_impacts: the whole loop (lines 76-90).
RECURSIVE ApplyImpacts(_, _, _, _)
ApplyImpacts(bt, tnum, gnum, impacts) ==
    IF impacts = <<>> THEN bt
    ELSE ApplyImpacts(ApplyImpact(bt, tnum, gnum, Head(impacts)),
                      tnum, gnum, Tail(impacts))

\* for game in games: the whole loop (lines 72-90).
RECURSIVE ApplyGames(_, _, _)
ApplyGames(bt, tnum, games) ==
    IF games = <<>> THEN bt
    ELSE ApplyGames(ApplyImpacts(bt, tnum, Get(Head(games), "gameNumber", 0),
                                 EconomicImpacts(Head(games))),
                    tnum, Tail(games))

\* for tournament in tournament_data: the whole loop (lines 44-90).
RECURSIVE ReconstructTournaments(_, _)
ReconstructTournaments(bt, tournaments) ==
    IF tournaments = <<>> THEN bt
    ELSE LET t == Head(tournaments)
             tnum == Get(t, "tournamentNumber", 0)
             seeded == AddStartingStrategies(bt, tnum, StartingStrategies(t))
         IN  ReconstructTournaments(ApplyGames(seeded, tnum, Games(t)),
                                    Tail(tournaments))

\* Variant of NewDict: the dict of the previous call is used again.
NewDict_Shared(previous) == previous

\* balance_timeline = {} (line 42), all_strategies = {} (line 180): a new
\* dict, whatever the previous call left behind.
NewDict(previous) == EmptyDict

\* reconstruct_balance_timeline(tournament_data)
ReconstructBalanceTimeline(previous, tournaments) ==
    ReconstructTournaments(NewDict(previous), tournaments)

\* all_strategies with the insertion order of its keys.
Collected(all, ord) == [all |-> all, ord |-> ord]

\* The three collection loops of one tournament, each as a whole.
RECURSIVE CollectRoster(_, _, _)
CollectRoster(c, tnum, roster) ==
    IF roster = <<>> THEN c
    ELSE CollectRoster(Collected(RegisterCore(c.all, Head(roster), tnum),
                                 KeyOrder(c.all, c.ord, Head(roster).id)),
                       tnum, Tail(roster))

RECURSIVE CollectCreated(_, _, _)
CollectCreated(c, tnum, created) ==
    IF created = <<>> THEN c
    ELSE CollectCreated(Collected(RegisterCreated(c.all, Head(created), tnum),
                                  KeyOrder(c.all, c.ord, Head(created).id)),
                        tnum, Tail(created))

RECURSIVE CollectEvolved(_, _, _)
CollectEvolved(c, tnum, evolved) ==
    IF evolved = <<>> THEN c
    ELSE LET all == RegisterEvolved(c.all, Head(evolved), tnum)
             ord == IF DOMAIN all = DOMAIN c.all THEN c.ord
                    ELSE Append(c.ord, Head(evolved).id)
         IN  CollectEvolved(Collected(all, ord), tnum, Tail(evolved))

\* The first pass of create_evolution_tree (lines 183-225).
RECURSIVE CollectTournaments(_, _)
CollectTournaments(c, tournaments) ==
    IF tournaments = <<>> THEN c
    ELSE LET t == Head(tournaments)
             tnum == Get(t, "tournamentNumber", 0)
             core == CollectRoster(c, tnum, StartingStrategies(t))
             created == CollectCreated(core, tnum, CreatedList(t))
         IN  CollectTournaments(CollectEvolved(created, tnum, EvolvedStrategies(t)),
                                Tail(tournaments))

\* The second pass (lines 233-245), over the keys left to visit.
RECURSIVE BuildGraph(_, _, _)
BuildGraph(g, c, left) ==
    IF left = <<>> THEN g
    ELSE BuildGraph(GraphStep(g, c.all, c.ord, Head(left)), c, Tail(left))

\* create_evolution_tree(tournament_data, color_map): what it returns.
EvolutionTree(previous, tournaments) ==
    LET c == CollectTournaments(Collected(NewDict(previous), <<>>), tournaments)
    IN  IF IsSimpleDisplay(c.all)
        THEN [returned |-> "simple_display", G |-> EmptyGraph,
              all_strategies |-> c.all, order |-> c.ord]
        ELSE [returned |-> "graph", G |-> BuildGraph(EmptyGraph, c, c.ord),
              all_strategies |-> c.all, order |-> c.ord]

---------------------------------------------------------------------------
(* SpecOptional: one tournament record with optional collections. *)

\* A game without and with the economicImpact key.
GameRecords ==
    { [gameNumber |-> 1],
      [gameNumber |-> 1, economicImpact |-> <<>>],
      [gameNumber |-> 1, economicImpact |->
          << [strategyId |-> "s1", profit |-> 50, isWinner |-> TRUE] >>] }

\* A created strategy without and with the parents key.
CreatedRecords ==
    { [id |-> "e1", name |-> "E", archetype |-> "EVOLVED"],
      [id |-> "e1", name |-> "E", archetype |-> "EVOLVED", parents |-> <<>>],
      [id |-> "e1", name |-> "E", archetype |-> "EVOLVED",
       parents |-> <<RefA70>>] }

\* evolutionDetails without and with the created key.
EvolutionDetailsRecords ==
    { EmptyDict, [created |-> <<>>] } \cup { [created |-> <<c>>] : c \in CreatedRecords }

\* Tournament records: every collection key may be missing.
TournamentRecords ==
    { Merge([tournamentNumber |-> 1], Merge(st, Merge(gm, Merge(ev, se)))) :
        st \in OptKey("strategies",
                      { <<>>, << [id |-> "s1", name |-> "A", archetype |-> "AGGRESSIVE"] >> }),
        gm \in OptKey("games", { <<>> } \cup { <<g>> : g \in GameRecords }),
        ev \in OptKey("evolutionDetails", EvolutionDetailsRecords),
        se \in OptKey("strategiesEvolved",
                      { <<>>, << [id |-> "e2", name |-> "A", basedOn |-> <<RefA70>>] >> }) }

\* reconstruct_balance_timeline(tournament_data) as one step.
ReconstructWhole ==
    /\ pc = "whole_start"
    /\ balance_timeline' = ReconstructBalanceTimeline(balance_timeline, tournament_data)
    /\ log' = log \o <<"reconstructing", "reconstructed">>
    /\ pc' = "whole_timeline"
    /\ UNCHANGED <<tournament_data, tournaments_left, tournament_num,
                   game_number, elems, data, tournaments_completed, strategy,
                   impact, results, treeVars, statsVars, runVars>>

\* create_evolution_tree(tournament_data, color_map) as one step.
TreeWhole ==
    /\ pc = "whole_timeline"
    /\ LET tree == EvolutionTree(all_strategies, tournament_data)
       IN  /\ all_strategies' = tree.all_strategies
           /\ order' = tree.order
           /\ G' = tree.G
           /\ returned' = tree.returned
           /\ visited' = IF tree.returned = "graph" THEN Len(tree.order) ELSE 0
           /\ generations' = IF tree.returned = "graph"
                             THEN GroupGenerations(EmptyDict, tree.G, tree.G.nodes)
                             ELSE EmptyDict
    /\ pc' = "whole_done"
    /\ UNCHANGED <<tournament_data, tournaments_left, tournament_num,
                   game_number, elems, first_reg, timelineVars, statsVars,
                   runVars>>

\* The functions are called with a list of one tournament record.
InitOptional ==
    /\ pc = "whole_start"
    /\ tournament_data \in { <<t>> : t \in TournamentRecords }
    /\ data = EmptyDict
    /\ balance_timeline = EmptyDict
    /\ tournaments_left = 0
    /\ tournaments_completed = 0
    /\ tournament_num = 0
    /\ game_number = 0
    /\ strategy = Unbound
    /\ impact = Unbound
    /\ log = <<>>
    /\ results = <<>>
    /\ elems = 0
    /\ all_strategies = EmptyDict
    /\ order = <<>>
    /\ first_reg = EmptyDict
    /\ G = EmptyGraph
    /\ visited = 0
    /\ generations = EmptyDict
    /\ returned = "nothing"
    /\ StatsIdleInit

NextOptional ==
    \/ ReconstructWhole
    \/ TreeWhole

SpecOptional == InitOptional /\ [][NextOptional]_vars

---------------------------------------------------------------------------
(* SpecRuns: several snapshots processed one after the other by the same   *)
(* process, each by a call of reconstruct_balance_timeline followed by a   *)
(* call of create_evolution_tree.                                          *)

RunTournamentA ==
    [tournamentNumber |-> 1,
     strategies |-> << [id |-> "s1", name |-> "A", archetype |-> "AGGRESSIVE"] >>,
     games |-> << [gameNumber |-> 1, economicImpact |->
                     << [strategyId |-> "s1", profit |-> 50, isWinner |-> TRUE] >>] >>]

RunTournamentB ==
    [tournamentNumber |-> 1,
     strategies |-> << [id |-> "s2", name |-> "B", archetype |-> "DIPLOMATIC"] >>,
     evolutionDetails |->
         [created |-> << [id |-> "e1", name |-> "E", archetype |-> "EVOLVED",
                          parents |-> <<RefA70>>] >>]]

RunTournamentC ==
    [tournamentNumber |-> 2,
     games |-> << [gameNumber |-> 1, economicImpact |->
                     << [strategyId |-> "s1", profit |-> -30, isWinner |-> FALSE] >>] >>,
     strategiesEvolved |-> << [id |-> "e2", name |-> "A", basedOn |-> <<RefA70>>] >>]

\* The tournament lists of the snapshots.
RunSnapshots ==
    { <<>>, <<RunTournamentA>>, <<RunTournamentB>>, <<RunTournamentC>>,
      <<RunTournamentA, RunTournamentC>>, <<RunTournamentB, RunTournamentC>>,
      <<RunTournamentA, RunTournamentB>>, <<RunTournamentC, RunTournamentA>> }

\* reconstruct_balance_timeline(tournament_data) for the next snapshot.
RunTimeline ==
    /\ pc = "run_start"
    /\ Len(runs) < MaxRuns
    /\ \E snap \in RunSnapshots :
           /\ tournament_data' = snap
           /\ balance_timeline' = ReconstructBalanceTimeline(balance_timeline, snap)
    /\ log' = log \o <<"reconstructing", "reconstructed">>
    /\ pc' = "run_timeline"
    /\ UNCHANGED <<tournaments_left, tournament_num, game_number, elems, data,
                   tournaments_completed, strategy, impact, results, treeVars,
                   statsVars, runVars>>

\* create_evolution_tree(tournament_data, color_map) for the same snapshot;
\* the caller keeps what the two calls returned.
RunTree ==
    /\ pc = "run_timeline"
    /\ LET tree == EvolutionTree(all_strategies, tournament_data)
       IN  /\ all_strategies' = tree.all_strategies
           /\ order' = tree.order
           /\ G' = tree.G
           /\ returned' = tree.returned
           /\ visited' = IF tree.returned = "graph" THEN Len(tree.order) ELSE 0
           /\ generations' = IF tree.returned = "graph"
                             THEN GroupGenerations(EmptyDict, tree.G, tree.G.nodes)
                             ELSE EmptyDict
           /\ runs' = Append(runs, [snapshot |-> tournament_data,
                                    timeline |-> balance_timeline,
                                    all_strategies |-> tree.all_strategies,
                                    nodes |-> Range(tree.G.nodes)])
    /\ pc' = "run_start"
    /\ UNCHANGED <<tournament_data, tournaments_left, tournament_num,
                   game_number, elems, first_reg, timelineVars, statsVars>>

InitRuns ==
    /\ pc = "run_start"
    /\ tournament_data = <<>>
    /\ data = EmptyDict
    /\ balance_timeline = EmptyDict
    /\ tournaments_left = 0
    /\ tournaments_completed = 0
    /\ tournament_num = 0
    /\ game_number = 0
    /\ strategy = Unbound
    /\ impact = Unbound
    /\ log = <<>>
    /\ results = <<>>
    /\ elems = 0
    /\ all_strategies = EmptyDict
    /\ order = <<>>
    /\ first_reg = EmptyDict
    /\ G = EmptyGraph
    /\ visited = 0
    /\ generations = EmptyDict
    /\ returned = "nothing"
    /\ StatsIdleInit

NextRuns ==
    \/ RunTimeline
    \/ RunTree

SpecRuns == InitRuns /\ [][NextRuns]_vars

---------------------------------------------------------------------------
(* SpecStandings: the data frame of one strategy's data points, its        *)
(* GameNumber column and the final standings computed from it.             *)

\* Tournament and game numbers of the data points: a tournament has up to
\* twelve games.
PointTournaments == 1..2
PointGames == {0, 1, 10, 11}

\* df['GameNumber'] = df['Tournament'] * 10 + df['Game']
GameNumber(tournament, game) == tournament * 10 + game

\* The row appended to plot_data for a data point; the balance tells the
\* points apart.
PlotRow(tournament, game, balance) ==
    [Strategy |-> "A", Tournament |-> tournament, Game |-> game,
     Balance |-> balance]

\* The frame with its GameNumber column.
WithGameNumber(frame) ==
    [i \in 1..Len(frame) |->
        Merge(frame[i],
              [GameNumber |-> GameNumber(frame[i].Tournament, frame[i].Game)])]

\* The orders sort_values('GameNumber') may leave the rows in: ascending
\* in GameNumber, rows of equal GameNumber in any order (the default sort
\* kind is not stable).
SortedFrames(frame) ==
    { [i \in 1..Len(frame) |-> frame[perm[i]]] :
        perm \in { f \in [1..Len(frame) -> 1..Len(frame)] :
                     /\ \A i, j \in 1..Len(frame) : i # j => f[i] # f[j]
                     /\ \A i, j \in 1..Len(frame) :
                            i < j => frame[f[i]].GameNumber <= frame[f[j]].GameNumber } }

\* The entry of final_standings: strategy_data.iloc[-1]['Balance'] and the
\* profit against the default balance.
Standing(sorted) ==
    [Strategy |-> Last(sorted).Strategy,
     Final_Balance |-> Last(sorted).Balance,
     Profit |-> Last(sorted).Balance - DEFAULT_BALANCE]

\* for point in datapoints: plot_data.append({...}), for a point of a
\* (tournament, game) pair the timeline does not hold yet.
AppendPoint(tournament, game) ==
    /\ pc = "df_rows"
    /\ Len(rows) < MaxPoints
    /\ \A i \in 1..Len(rows) :
           <<rows[i].Tournament, rows[i].Game>> # <<tournament, game>>
    /\ rows' = Append(rows, PlotRow(tournament, game,
                                    DEFAULT_BALANCE + 10 * (Len(rows) + 1)))
    /\ UNCHANGED <<pc, elems, strategies, todo, strategy_stats, report>>
    /\ OthersIdle

\* df = pd.DataFrame(plot_data) with at least one row, and the GameNumber
\* column.
BuildFrame ==
    /\ pc = "df_rows"
    /\ rows # <<>>
    /\ rows' = WithGameNumber(rows)
    /\ pc' = "df_built"
    /\ UNCHANGED <<elems, strategies, todo, strategy_stats, report>>
    /\ OthersIdle

\* The final standings: the last row after sort_values('GameNumber').
FinalStandings ==
    /\ pc = "df_built"
    /\ \E sorted \in SortedFrames(rows) :
           report' = << Standing(sorted) >>
    /\ pc' = "standings_done"
    /\ UNCHANGED <<elems, rows, strategies, todo, strategy_stats>>
    /\ OthersIdle

InitStandings ==
    /\ pc = "df_rows"
    /\ data = EmptyDict
    /\ balance_timeline = EmptyDict
    /\ tournament_data = <<>>
    /\ tournaments_left = 0
    /\ tournaments_completed = 0
    /\ tournament_num = 0
    /\ game_number = 0
    /\ strategy = Unbound
    /\ impact = Unbound
    /\ log = <<>>
    /\ results = <<>>
    /\ elems = 0
    /\ all_strategies = EmptyDict
    /\ order = <<>>
    /\ first_reg = EmptyDict
    /\ G = EmptyGraph
    /\ visited = 0
    /\ generations = EmptyDict
    /\ returned = "nothing"
    /\ StatsIdleInit

NextStandings ==
    \/ \E t \in PointTournaments, g \in PointGames : AppendPoint(t, g)
    \/ BuildFrame
    \/ FinalStandings

SpecStandings == InitStandings /\ [][NextStandings]_vars

---------------------------------------------------------------------------
(* SpecDetails: the final balance and win rate create_strategy_details_table *)
(* shows for every strategy.                                                *)

\* reversed(tournament_data)
Reversed(seq) == [i \in 1..Len(seq) |-> seq[Len(seq) + 1 - i]]

\* 'Unknown', a balance as shown for a survivor or for an eliminated
\* strategy (f"{finalBalance} (eliminated)"), and f"{winRate}%".
UnknownText == [unknown |-> TRUE]
BalanceText(balance, eliminated) == [balance |-> balance, eliminated |-> eliminated]
PercentText(rate) == [percent |-> rate]

\* final_balance and win_rate before the search.
NoPerformance == [final_balance |-> UnknownText, win_rate |-> UnknownText]

\* for survivor in evolution_details.get('survivors', []): the first entry
\* of the strategy sets both values and ends this loop.
RECURSIVE CheckSurvivors(_, _, _)
CheckSurvivors(perf, strategy_id, survivors) ==
    IF survivors = <<>> THEN perf
    ELSE IF Head(survivors).id = strategy_id
         THEN [final_balance |-> BalanceText(Head(survivors).balance, FALSE),
               win_rate |-> PercentText(Head(survivors).winRate)]
         ELSE CheckSurvivors(perf, strategy_id, Tail(survivors))

\* for eliminated in evolution_details.get('eliminated', []): likewise.
RECURSIVE CheckEliminated(_, _, _)
CheckEliminated(perf, strategy_id, eliminated) ==
    IF eliminated = <<>> THEN perf
    ELSE IF Head(eliminated).id = strategy_id
         THEN [final_balance |-> BalanceText(Head(eliminated).finalBalance, TRUE),
               win_rate |-> PercentText(Head(eliminated).winRate)]
         ELSE CheckEliminated(perf, strategy_id, Tail(eliminated))

\* for tournament in reversed(tournament_data): both inner loops run for
\* every tournament; a `break` leaves the inner loop only.
RECURSIVE FindPerformance(_, _, _)
FindPerformance(perf, strategy_id, tournaments) ==
    IF tournaments = <<>> THEN perf
    ELSE LET details == Get(Head(tournaments), "evolutionDetails", EmptyDict)
             survived == CheckSurvivors(perf, strategy_id,
                                        Get(details, "survivors", <<>>))
         IN  FindPerformance(CheckEliminated(survived, strategy_id,
                                             Get(details, "eliminated", <<>>)),
                             strategy_id, Tail(tournaments))

\* The row of table_data for a strategy, as far as performance goes.
TableRow(strategy_id, info, tournaments) ==
    LET perf == FindPerformance(NoPerformance, strategy_id, Reversed(tournaments))
    IN  [id |-> strategy_id, name |-> info.name,
         final_balance |-> perf.final_balance, win_rate |-> perf.win_rate]

\* The entries a tournament at a position of the list records for a
\* strategy; the values tell the tournaments apart.
SurvivorEntry(id, pos) == [id |-> id, balance |-> 600 + 10 * pos, winRate |-> 50 + pos]
EliminatedEntry(id, pos) == [id |-> id, finalBalance |-> 10 * pos, winRate |-> pos]

\* The evolutionDetails a tournament at a position may have.
DetailsAt(pos) ==
    { Merge(sv, el) :
        sv \in OptKey("survivors",
                      { <<>>, << SurvivorEntry("s1", pos) >>,
                        << SurvivorEntry("s2", pos), SurvivorEntry("s1", pos) >> }),
        el \in OptKey("eliminated",
                      { << EliminatedEntry("s1", pos) >>,
                        << EliminatedEntry("s2", pos) >> }) }

TournamentsAt(pos) ==
    { [tournamentNumber |-> pos] } \cup
    { [tournamentNumber |-> pos, evolutionDetails |-> d] : d \in DetailsAt(pos) }

\* Tournament lists of every length up to MaxTournaments.
DetailLists ==
    UNION { { l \in [1..n -> UNION { TournamentsAt(pos) : pos \in 1..n }] :
                \A pos \in 1..n : l[pos] \in TournamentsAt(pos) } :
            n \in 1..MaxTournaments }

\* all_strategies as create_evolution_tree returned it.
TableStrategies ==
    [k \in {"s1", "s2", "s3"} |->
        [name |-> IF k = "s1" THEN "A" ELSE IF k = "s2" THEN "B" ELSE "C",
         archetype |-> "AGGRESSIVE", first_seen |-> 1, strategy_text |-> "",
         is_core |-> TRUE]]

\* for strategy_id, info in all_strategies.items(): one row of table_data.
AppendTableRow ==
    /\ pc = "table_rows"
    /\ todo # <<>>
    /\ report' = Append(report, TableRow(Head(todo), all_strategies[Head(todo)],
                                         tournament_data))
    /\ todo' = Tail(todo)
    /\ UNCHANGED <<pc, elems, rows, strategies, strategy_stats>>
    /\ OthersIdle

\* table_data.sort(key=(generation, name)) and the drawing: the rows of the
\* core strategies A, B, C are in that order already, so the sort leaves
\* them in place; the table is saved.
SaveTable ==
    /\ pc = "table_rows"
    /\ todo = <<>>
    /\ pc' = "table_saved"
    /\ UNCHANGED <<elems, statsVars>>
    /\ OthersIdle

InitDetails ==
    /\ pc = "table_rows"
    /\ tournament_data \in DetailLists
    /\ all_strategies = TableStrategies
    /\ order = <<"s1", "s2", "s3">>
    /\ todo = <<"s1", "s2", "s3">>
    /\ data = EmptyDict
    /\ balance_timeline = EmptyDict
    /\ tournaments_left = 0
    /\ tournaments_completed = 0
    /\ tournament_num = 0
    /\ game_number = 0
    /\ strategy = Unbound
    /\ impact = Unbound
    /\ log = <<>>
    /\ results = <<>>
    /\ elems = 0
    /\ first_reg = EmptyDict
    /\ G = EmptyGraph
    /\ visited = 0
    /\ generations = EmptyDict
    /\ returned = "nothing"
    /\ runs = <<>>
    /\ rows = <<>>
    /\ strategies = EmptyDict
    /\ strategy_stats = <<>>
    /\ report = <<>>

NextDetails ==
    \/ AppendTableRow
    \/ SaveTable

SpecDetails == InitDetails /\ [][NextDetails]_vars

---------------------------------------------------------------------------
(* Properties of reconstruct_balance_timeline and load_evolution_data,     *)
(* checked under Spec.                                                     *)

\* The supplied 'balanceTimeline' of a snapshot ({} when the key is absent).
Supplied(d) == Get(d, "balanceTimeline", EmptyDict)

\* reconstruct_balance_timeline was entered in this run.
Reconstructed == "reconstructing" \in Range(log)

\* The step just taken is one iteration of the roster loop (lines 49-68).
RosterStep == pc = "rb_roster" /\ pc' = "rb_roster" /\ elems' = elems + 1

\* The step just taken is one iteration of the impact loop (lines 76-90).
ImpactStep == pc = "rb_impacts" /\ pc' = "rb_impacts" /\ elems' = elems + 1

\* The tournament and the game being iterated, as the input gives them.
CurrentTournament == Get(Last(tournament_data), "tournamentNumber", 0)
CurrentGame == Get(Last(Last(tournament_data).games), "gameNumber", 0)

\* The last entry read from the current game's economicImpact list is imp.
LastImpactRead(imp) ==
    /\ pc = "rb_impacts"
    /\ Last(Last(tournament_data).games).economicImpact # <<>>
    /\ Last(Last(Last(tournament_data).games).economicImpact) = imp

\* (tournament, game) of p comes strictly before that of q.
PointBefore(p, q) ==
    \/ p.tournament < q.tournament
    \/ p.tournament = q.tournament /\ p.game < q.game

\* C1: every reconstructed timeline is strictly increasing in
\* (tournament, game), and the first point of each tournament number in a
\* timeline has game = 0.
C1_TimelinesStrictlyOrdered ==
    Reconstructed =>
        \A k \in DOMAIN balance_timeline :
            LET pts == balance_timeline[k].dataPoints
            IN  /\ \A i \in 1..(Len(pts) - 1) : PointBefore(pts[i], pts[i + 1])
                /\ \A i \in 1..Len(pts) :
                       (\A j \in 1..(i - 1) : pts[j].tournament # pts[i].tournament)
                           => pts[i].game = 0

\* C2 as stated: every reconstructed point, seed points included, has
\* isEliminated true exactly when its balance is below 100.
C2_EveryPointEliminatedIffBelow100 ==
    Reconstructed =>
        \A k \in DOMAIN balance_timeline :
            \A i \in 1..Len(balance_timeline[k].dataPoints) :
                LET p == balance_timeline[k].dataPoints[i]
                IN  p.isEliminated <=> p.balance < 100

\* C2 as amended: a point appended for an economic impact has isEliminated
\* true exactly when its balance is below 100; a seed point appended for a
\* roster entry has isEliminated false whatever its balance.
C2_ImpactPointsEliminatedIffBelow100 ==
    [][ /\ ImpactStep /\ Get(impact', "strategyId", "") \in DOMAIN balance_timeline
            => LET p == Last(balance_timeline'[impact'.strategyId].dataPoints)
               IN  p.isEliminated <=> p.balance < 100
        /\ RosterStep
            => LET p == Last(balance_timeline'[strategy'.id].dataPoints)
               IN  p.game = 0 /\ ~p.isEliminated ]_vars

\* C2 witness: a timeline whose seed is below 100 and not eliminated, then an
\* impact point at exactly 100 (not eliminated) and one below 100 (eliminated).
C2_Witness ==
    /\ Reconstructed
    /\ \E k \in DOMAIN balance_timeline :
           LET pts == balance_timeline[k].dataPoints
           IN  /\ Len(pts) = 3
               /\ pts[1].game = 0 /\ pts[1].balance < 100 /\ ~pts[1].isEliminated
               /\ pts[2].balance = 100 /\ ~pts[2].isEliminated
               /\ pts[3].balance < 100 /\ pts[3].isEliminated

\* C3: the point appended for an economic impact has the previous point's
\* balance plus the impact's profit, the impact's profit and isWinner flag,
\* and the enclosing tournament and game numbers.
C3_ImpactPointContinuesLastBalance ==
    [][ ImpactStep /\ Get(impact', "strategyId", "") \in DOMAIN balance_timeline
            => LET old == balance_timeline[impact'.strategyId].dataPoints
                   new == balance_timeline'[impact'.strategyId].dataPoints
                   p == Last(new)
               IN  /\ Len(new) = Len(old) + 1
                   /\ \A i \in 1..Len(old) : new[i] = old[i]
                   /\ p.balance = old[Len(old)].balance + Get(impact', "profit", 0)
                   /\ p.profit = Get(impact', "profit", 0)
                   /\ p.isWinner = Get(impact', "isWinner", FALSE)
                   /\ p.tournament = CurrentTournament'
                   /\ p.game = CurrentGame' ]_vars

\* C3 witness: two impacts have been applied, one after the other, to a
\* seeded timeline, and the balances add up.
C3_Witness ==
    /\ \E imp \in ImpactEntries : LastImpactRead(imp) /\ impact = imp
    /\ \E k \in DOMAIN balance_timeline :
           LET pts == balance_timeline[k].dataPoints
           IN  /\ Len(pts) = 3
               /\ pts[2].profit # 0 /\ pts[3].profit # 0
               /\ pts[3].balance = pts[1].balance + pts[2].profit + pts[3].profit
               /\ pts[3].balance # pts[1].balance + pts[3].profit

\* The seed point of roster entry s in tournament tnum.
ExpectedSeed(s, tnum) ==
    [tournament |-> tnum, game |-> 0,
     balance |-> IF "coinBalance" \in DOMAIN s THEN s.coinBalance ELSE 500,
     profit |-> 0, isWinner |-> FALSE, isEliminated |-> FALSE]

\* C4 as stated: a roster entry appends a seed point only when the strategy
\* has no prior points; a strategy that already has points gets no further
\* seed point.
C4_SeedOnlyOnFirstAppearance ==
    [][ RosterStep
            => IF strategy'.id \in DOMAIN balance_timeline
               THEN balance_timeline'[strategy'.id] = balance_timeline[strategy'.id]
               ELSE balance_timeline'[strategy'.id].dataPoints
                        = << ExpectedSeed(strategy', CurrentTournament') >> ]_vars

\* C4 as amended: every roster entry appends a seed point (tournament, 0,
\* declared balance or 500, 0, false, false), whether or not the strategy
\* already has points; only the timeline entry is created on the first
\* appearance alone, and keeps its name and archetype afterwards.
C4_SeedOnEveryRosterAppearance ==
    [][ RosterStep
            => LET id == strategy'.id
                   known == id \in DOMAIN balance_timeline
                   old == IF known THEN balance_timeline[id].dataPoints ELSE <<>>
               IN  /\ balance_timeline'[id].dataPoints
                          = Append(old, ExpectedSeed(strategy', CurrentTournament'))
                   /\ known => /\ balance_timeline'[id].name = balance_timeline[id].name
                               /\ balance_timeline'[id].archetype
                                      = balance_timeline[id].archetype
                   /\ \A k \in DOMAIN balance_timeline :
                          k # id => balance_timeline'[k] = balance_timeline[k] ]_vars

\* C4 witness: a strategy seeded in one tournament has played a game and is
\* seeded again, with the default balance, by a later tournament's roster.
C4_Witness ==
    /\ pc = "rb_roster"
    /\ Len(tournament_data) = 2
    /\ Last(tournament_data).strategies # <<>>
    /\ \E k \in DOMAIN balance_timeline :
           LET pts == balance_timeline[k].dataPoints
           IN  /\ Len(pts) = 3
               /\ pts[1].game = 0
               /\ pts[2].profit # 0
               /\ pts[3] = [tournament |-> 1, game |-> 0, balance |-> 500,
                            profit |-> 0, isWinner |-> FALSE,
                            isEliminated |-> FALSE]
               /\ pts[1].tournament # pts[3].tournament

\* The strategy ids listed in the rosters read so far.
RosterIds ==
    UNION { { tournament_data[t].strategies[i].id :
                i \in 1..Len(tournament_data[t].strategies) } :
            t \in 1..Len(tournament_data) }

\* C5: an impact whose strategyId has no timeline appends no point and
\* creates no entry, and the keys of the reconstructed timeline map are the
\* strategy ids that appear in some roster.
C5_UnknownImpactIgnored ==
    /\ [](Reconstructed => DOMAIN balance_timeline = RosterIds)
    /\ [][ ImpactStep /\ Get(impact', "strategyId", "") \notin DOMAIN balance_timeline
               => balance_timeline' = balance_timeline ]_vars

\* C5 witness: an impact for a strategy no roster has listed was just read
\* while another strategy has a timeline.
C5_Witness ==
    /\ Reconstructed
    /\ \E imp \in ImpactEntries :
           /\ LastImpactRead(imp)
           /\ imp.strategyId \notin DOMAIN balance_timeline
    /\ balance_timeline # EmptyDict

\* C6: a non-empty supplied balanceTimeline is returned unchanged and no
\* reconstruction runs, whatever the tournament list holds; reconstruction
\* runs only when the supplied timeline is absent or empty and the
\* tournament list is non-empty.
C6_SuppliedTimelinePassthrough ==
    pc # "start" =>
        /\ Supplied(data) # EmptyDict
               => /\ balance_timeline = Supplied(data)
                  /\ ~Reconstructed
                  /\ tournament_data = <<>>
        /\ Reconstructed => Supplied(data) = EmptyDict /\ TournamentCount > 0

\* C6 witness: load_evolution_data has returned a supplied timeline although
\* the snapshot holds tournaments.
C6_Witness ==
    /\ pc = "loaded"
    /\ Supplied(data) # EmptyDict
    /\ TournamentCount > 0
    /\ balance_timeline = Supplied(data)

\* The snapshot has neither the tournamentData nor the tournaments key.
NeitherKey(d) == "tournamentData" \notin DOMAIN d /\ "tournaments" \notin DOMAIN d

---------------------------------------------------------------------------
(* Properties of create_evolution_tree, checked under SpecTree.            *)

\* C8: the lineage graph has no self-loop.
C8_NoSelfLoop == \A e \in DOMAIN G.edges : e[1] # e[2]

\* C9: every edge of the lineage graph has a weight within [0, 100].
C9_EdgeWeightInRange ==
    \A e \in DOMAIN G.edges : G.edges[e] >= 0 /\ G.edges[e] <= 100

\* C10: after the collection pass, every node has the generation and the
\* is_core flag of its first registration.
C10_FirstRegistrationWins ==
    pc \in {"edges", "tree_done"} =>
        \A k \in DOMAIN all_strategies :
            /\ all_strategies[k].first_seen = first_reg[k].first_seen
            /\ all_strategies[k].is_core = first_reg[k].is_core

---------------------------------------------------------------------------
(* Properties of create_evolution_tree, checked under SpecLineage.         *)

\* C11: create_evolution_tree returns no graph (the flat roster of
\* create_simple_strategy_display) exactly when the collected node set has
\* six or fewer nodes and all of them are core; with seven or more nodes, or
\* with a non-core node, the edge pass runs and a graph holding every
\* collected strategy is returned.
C11_TrivialIffAtMostSixCore ==
    LET trivial == /\ Cardinality(DOMAIN all_strategies) <= 6
                   /\ \A k \in DOMAIN all_strategies : all_strategies[k].is_core
    IN  /\ pc = "edges" => ~trivial
        /\ pc = "tree_done" =>
               /\ returned \in {"simple_display", "graph"}
               /\ returned = "simple_display" <=> trivial
               /\ returned = "simple_display" => G = EmptyGraph
               /\ returned = "graph" =>
                      Range(G.nodes) = DOMAIN all_strategies

\* C11 witness: seven strategies, all core, and a graph was returned.
C11_Witness ==
    /\ pc = "tree_done"
    /\ returned = "graph"
    /\ Cardinality(DOMAIN all_strategies) = 7
    /\ \A k \in DOMAIN all_strategies : all_strategies[k].is_core

\* The parent references a collected strategy declares ([] for a core one).
DeclaredParents(k) == Get(all_strategies[k], "parents", <<>>)

\* No collected strategy carries the name a parent reference gives.
Unresolved(ref) ==
    \A k \in DOMAIN all_strategies : all_strategies[k].name # ref.name

\* The edges of G that end in node k.
InEdges(k) == { e \in DOMAIN G.edges : e[2] = k }

\* C12: a parent reference whose name matches no collected strategy adds no
\* edge and no node: every edge joins two collected strategies and its
\* parent end carries a name the child declares, so a child whose references
\* all fail to resolve has in-degree 0; the child itself is a node of the
\* returned graph.
C12_UnresolvedParentDropped ==
    /\ \A e \in DOMAIN G.edges :
           /\ e[1] \in DOMAIN all_strategies
           /\ e[2] \in DOMAIN all_strategies
           /\ \E i \in 1..Len(DeclaredParents(e[2])) :
                  all_strategies[e[1]].name = DeclaredParents(e[2])[i].name
    /\ Range(G.nodes) \subseteq DOMAIN all_strategies
    /\ \A k \in DOMAIN all_strategies :
           (\A i \in 1..Len(DeclaredParents(k)) : Unresolved(DeclaredParents(k)[i]))
               => InEdges(k) = {}
    /\ (pc = "tree_done" /\ returned = "graph")
           => Range(G.nodes) = DOMAIN all_strategies

\* C12 witness: a graph was returned in which a strategy that declares two
\* parents, neither of them a collected strategy's name, is a node without
\* incoming edge.
C12_Witness ==
    /\ pc = "tree_done"
    /\ returned = "graph"
    /\ \E k \in DOMAIN all_strategies :
           /\ Len(DeclaredParents(k)) = 2
           /\ \A i \in 1..2 : Unresolved(DeclaredParents(k)[i])
           /\ k \in Range(G.nodes)
           /\ InEdges(k) = {}

\* The evolution-block declarations read so far, as <<id, parent list>>:
\* entries of evolutionDetails.created with their 'parents', entries of
\* strategiesEvolved that have an id with their 'basedOn'.
Declared ==
    UNION { { <<tournament_data[t].created[i].id,
                Get(tournament_data[t].created[i], "parents", <<>>)>> :
                  i \in 1..Len(tournament_data[t].created) }
            \cup
            { <<tournament_data[t].strategiesEvolved[i].id,
                Get(tournament_data[t].strategiesEvolved[i], "basedOn", <<>>)>> :
                  i \in { j \in 1..Len(tournament_data[t].strategiesEvolved) :
                            "id" \in DOMAIN tournament_data[t].strategiesEvolved[j] } } :
            t \in 1..Len(tournament_data) }

\* C13: after the collection pass, every strategy declared in an evolution
\* block, in either schema variant, is a node with is_core false that holds
\* a parent list declared for it, also when its id was registered from a
\* roster before.
C13_EveryDeclaredStrategyIsEvolvedNode ==
    pc \in {"edges", "tree_done"} =>
        \A d \in Declared :
            /\ d[1] \in DOMAIN all_strategies
            /\ all_strategies[d[1]].is_core = FALSE
            /\ "parents" \in DOMAIN all_strategies[d[1]]
            /\ \E x \in Declared :
                   x[1] = d[1] /\ all_strategies[d[1]].parents = x[2]

\* The place of a collected strategy in the iteration order of all_strategies.
Position(k) == CHOOSE i \in 1..Len(order) : order[i] = k

\* The collected strategies that carry the name a parent reference gives.
Named(ref) == { k \in DOMAIN all_strategies : all_strategies[k].name = ref.name }

\* The strategies the edge pass has visited.
Visited == { order[i] : i \in 1..visited }

\* C14: in the edge pass every parent reference of a visited strategy yields
\* at most one edge: its parent end is the strategy registered first among
\* those carrying the referenced name, and no strategy registered later
\* under that name is the parent end of an edge into the child.
C14_FirstMatchByName ==
    \A k \in Visited :
        /\ \A i \in 1..Len(DeclaredParents(k)) :
               LET ref == DeclaredParents(k)[i]
               IN  \A u \in Named(ref) :
                       <<u, k>> \in DOMAIN G.edges
                           <=> \A w \in Named(ref) : Position(u) <= Position(w)
        /\ Cardinality(InEdges(k)) <= Len(DeclaredParents(k))

\* C14 witness: a graph was returned in which s2 was registered before s1,
\* both are named "A", and a child that declares parent "A" has its edge
\* from s2 and none from s1.
C14_Witness ==
    /\ pc = "tree_done"
    /\ returned = "graph"
    /\ {"s1", "s2"} \subseteq DOMAIN all_strategies
    /\ Position("s2") < Position("s1")
    /\ all_strategies["s1"].name = all_strategies["s2"].name
    /\ \E k \in DOMAIN all_strategies :
           /\ \E i \in 1..Len(DeclaredParents(k)) :
                  DeclaredParents(k)[i].name = all_strategies["s1"].name
           /\ <<"s2", k>> \in DOMAIN G.edges
           /\ <<"s1", k>> \notin DOMAIN G.edges

---------------------------------------------------------------------------
(* Properties of the balance-timeline statistics, checked under            *)
(* SpecAnalyze and SpecTimelineStats.                                      *)

\* The statistics loop of analyze_balance_timeline is over.
StatsLoopOver == pc \in {"raised", "analysis_done"}

\* C15: when the statistics loop is over, every strategy of the CSV has its
\* statistics record, and the record of a strategy whose first balance is 0
\* has its percentage change left undefined.
C15_ZeroStartIsolated ==
    StatsLoopOver =>
        \A name \in DOMAIN strategies :
            \E i \in 1..Len(strategy_stats) :
                /\ strategy_stats[i].name = name
                /\ strategies[name][1].Balance = 0
                       => "num" \notin DOMAIN strategy_stats[i].change_pct

\* The strategy ids that occur in the CSV.
RowIds == { rows[i].StrategyId : i \in 1..Len(rows) }

\* C16: the aggregation produces one statistics record per strategy id, and
\* a record is computed from the rows of one id only.
C16_OneRecordPerId ==
    pc = "analysis_done" =>
        /\ Len(strategy_stats) = Cardinality(RowIds)
        /\ \A i \in 1..Len(strategy_stats) :
               \A j, k \in 1..Len(strategy_stats[i].data) :
                   strategy_stats[i].data[j].StrategyId
                       = strategy_stats[i].data[k].StrategyId

\* The rows of the CSV with Game > 0 that belong to a strategy name.
GameRowsOf(name) ==
    { i \in 1..Len(rows) : rows[i].Strategy = name /\ rows[i].Game > 0 }

\* C17: every volatility visualize_balance_timeline prints is a
\* non-negative number, and is 0 when the strategy has at most one row with
\* Game > 0.
C17_VolatilityNonNegativeZeroUpToOneGame ==
    \A i \in 1..Len(report) :
        LET v == report[i].volatility
        IN  /\ "sqrt_of" \in DOMAIN v
            /\ v.sqrt_of.num >= 0
            /\ Cardinality(GameRowsOf(report[i].name)) <= 1
                   => v.sqrt_of.num = 0

\* C18: every win rate visualize_balance_timeline prints lies in [0, 100]
\* and counts the wins among the rows with Game > 0 only.
C18_WinRateWithinBoundsGamesOnly ==
    \A i \in 1..Len(report) :
        LET w == report[i].win_rate
            won == { j \in GameRowsOf(report[i].name) : rows[j].IsWinner }
        IN  /\ w.num >= 0
            /\ w.num <= 100 * w.den
            /\ report[i].wins = Cardinality(won)
            /\ GameRowsOf(report[i].name) = {} => w.num = 0

\* Row i of the CSV comes before row j in (tournament, game) order, rows of
\* equal tournament and game in file order.
RowPrecedes(i, j) ==
    \/ rows[i].Tournament < rows[j].Tournament
    \/ rows[i].Tournament = rows[j].Tournament /\ rows[i].Game < rows[j].Game
    \/ /\ rows[i].Tournament = rows[j].Tournament
       /\ rows[i].Game = rows[j].Game
       /\ i <= j

\* C19: in every statistics record of analyze_balance_timeline, start is
\* the balance of the strategy's first row and final that of its last row
\* in (tournament, game) order, peak is the largest balance of its rows and
\* change is final minus start; so peak >= start and peak >= final.
C19_StartFinalPeakChange ==
    \A n \in 1..Len(strategy_stats) :
        LET st == strategy_stats[n]
            mine == { i \in 1..Len(rows) : rows[i].Strategy = st.name }
            first == CHOOSE i \in mine : \A j \in mine : RowPrecedes(i, j)
            last == CHOOSE i \in mine : \A j \in mine : RowPrecedes(j, i)
        IN  /\ mine # {}
            /\ st.start = rows[first].Balance
            /\ st.final = rows[last].Balance
            /\ \E i \in mine : st.peak = rows[i].Balance
            /\ \A i \in mine : st.peak >= rows[i].Balance
            /\ st.change = st.final - st.start
            /\ st.peak >= st.start
            /\ st.peak >= st.final

\* C19 witness: the analysis is done for a strategy whose rows stand in the
\* file out of order and whose peak lies above both start and final.
C19_Witness ==
    /\ pc = "analysis_done"
    /\ Len(rows) >= 3
    /\ rows[1].Game > rows[2].Game
    /\ \E n \in 1..Len(strategy_stats) :
           /\ strategy_stats[n].name = rows[1].Strategy
           /\ Len(strategy_stats[n].data) >= 3
           /\ strategy_stats[n].peak > strategy_stats[n].final
           /\ strategy_stats[n].final > strategy_stats[n].start

\* C20: the risk tier printed for a strategy is HIGH when its volatility is
\* above 60, MED when above 30 and at most 60, LOW otherwise; the reward
\* tier is HIGH when its change is above 100, MED when above 0 and at most
\* 100, LOW otherwise.
C20_RiskRewardTiers ==
    pc = "analysis_done" =>
        /\ Len(report) = Len(strategy_stats)
        /\ \A i \in 1..Len(report) :
               LET v == strategy_stats[i].volatility.sqrt_of
                   c == strategy_stats[i].change
               IN  /\ report[i].name = strategy_stats[i].name
                   /\ report[i].risk_level =
                          IF v.num > 3600 * v.den THEN "HIGH"
                          ELSE IF v.num > 900 * v.den THEN "MED"
                          ELSE "LOW"
                   /\ report[i].reward_level =
                          IF c > 100 THEN "HIGH"
                          ELSE IF c > 0 THEN "MED"
                          ELSE "LOW"

\* C20 witness: a strategy with volatility exactly 60 and change exactly
\* 100 was printed with risk MED and reward MED.
C20_Witness ==
    /\ pc = "analysis_done"
    /\ \E i \in 1..Len(report) :
           /\ strategy_stats[i].volatility.sqrt_of.num
                  = 3600 * strategy_stats[i].volatility.sqrt_of.den
           /\ strategy_stats[i].change = 100
           /\ report[i].risk_level = "MED"
           /\ report[i].reward_level = "MED"

---------------------------------------------------------------------------
(* Further properties of create_evolution_tree, checked under SpecLineage. *)

\* The places a node holds in the generation groups, as <<key, index>>.
GroupPlaces(k) ==
    { p \in UNION { { <<gen, i>> : i \in 1..Len(generations[gen]) } :
                    gen \in DOMAIN generations } :
        generations[p[1]][p[2]] = k }

\* C21: in the returned graph every node stands in exactly one generation
\* group, once, and the key of that group is the node's first_seen, whatever
\* edges enter or leave the node; the groups hold nodes only.
C21_GenerationIsFirstSeen ==
    (pc = "tree_done" /\ returned = "graph") =>
        /\ \A k \in Range(G.nodes) :
               /\ Cardinality(GroupPlaces(k)) = 1
               /\ \A p \in GroupPlaces(k) : p[1] = all_strategies[k].first_seen
        /\ \A gen \in DOMAIN generations :
               Range(generations[gen]) \subseteq Range(G.nodes)

\* C21 witness: a graph with two generation groups was returned in which an
\* edge joins two different nodes of the same group.
C21_Witness ==
    /\ pc = "tree_done"
    /\ returned = "graph"
    /\ Cardinality(DOMAIN generations) >= 2
    /\ \E e \in DOMAIN G.edges :
           /\ e[1] # e[2]
           /\ \E gen \in DOMAIN generations :
                  {e[1], e[2]} \subseteq Range(generations[gen])

\* C24: every edge ends in a non-core strategy, so a core strategy has
\* in-degree 0, and both ends of every edge are collected strategies and
\* nodes of the graph.
C24_EdgesEnterNonCoreOnly ==
    /\ \A e \in DOMAIN G.edges :
           /\ {e[1], e[2]} \subseteq DOMAIN all_strategies
           /\ {e[1], e[2]} \subseteq Range(G.nodes)
           /\ all_strategies[e[2]].is_core = FALSE
    /\ \A k \in DOMAIN all_strategies :
           all_strategies[k].is_core => InEdges(k) = {}

\* C24 witness: a graph was returned in which a core strategy is the parent
\* end of an edge into a non-core one and has no incoming edge itself.
C24_Witness ==
    /\ pc = "tree_done"
    /\ returned = "graph"
    /\ \E e \in DOMAIN G.edges :
           /\ all_strategies[e[1]].is_core
           /\ ~all_strategies[e[2]].is_core
           /\ InEdges(e[1]) = {}


---------------------------------------------------------------------------
(* Omitted optional collections, checked under SpecOptional. *)

\* A sequence of records with every record replaced by its completion.
CompletedGames(games) ==
    [i \in 1..Len(games) |->
        Merge(games[i], [economicImpact |-> <<>>])]

CompletedCreated(created) ==
    [i \in 1..Len(created) |-> Merge(created[i], [parents |-> <<>>])]

\* The tournament record with every omitted optional collection written
\* out as an empty one.
Completed(t) ==
    LET det == Get(t, "evolutionDetails", EmptyDict)
    IN  Merge([strategies |-> Get(t, "strategies", <<>>),
               games |-> CompletedGames(Get(t, "games", <<>>)),
               evolutionDetails |->
                   Merge([created |->
                              CompletedCreated(Get(det, "created", <<>>))], det),
               strategiesEvolved |-> Get(t, "strategiesEvolved", <<>>)],
              t)

CompletedList(tournaments) ==
    [i \in 1..Len(tournaments) |-> Completed(tournaments[i])]

\* The optional collections a tournament record leaves out.
OmittedKeys(t) ==
    {"strategies", "games", "evolutionDetails", "strategiesEvolved"} \ DOMAIN t

\* C22: a tournament record that omits optional collections (strategies,
\* games, a game's economicImpact, evolutionDetails or its created list,
\* strategiesEvolved, a created strategy's parents) is processed by
\* reconstruct_balance_timeline and by create_evolution_tree exactly as the
\* record in which those collections are written out empty, and both
\* functions return.
C22_OmittedCollectionIsEmpty ==
    /\ pc \in {"whole_start", "whole_timeline", "whole_done"}
    /\ pc \in {"whole_timeline", "whole_done"} =>
           balance_timeline =
               ReconstructBalanceTimeline(EmptyDict, CompletedList(tournament_data))
    /\ pc = "whole_done" =>
           LET tree == EvolutionTree(EmptyDict, CompletedList(tournament_data))
           IN  /\ all_strategies = tree.all_strategies
               /\ order = tree.order
               /\ G = tree.G
               /\ returned = tree.returned

\* C22 witness: both functions have returned for a record without
\* strategies, games and strategiesEvolved whose created strategy has no
\* parents key.
C22_Witness ==
    /\ pc = "whole_done"
    /\ OmittedKeys(tournament_data[1]) = {"strategies", "games", "strategiesEvolved"}
    /\ Len(CreatedList(tournament_data[1])) = 1
    /\ "parents" \notin DOMAIN CreatedList(tournament_data[1])[1]
    /\ returned = "graph"
    /\ balance_timeline = EmptyDict

---------------------------------------------------------------------------
(* Independence of the snapshots of one run, checked under SpecRuns. *)

\* What the two functions give for a tournament list processed alone, in a
\* process that has processed nothing before.
Alone(tournaments) ==
    LET tree == EvolutionTree(EmptyDict, tournaments)
    IN  [snapshot |-> tournaments,
         timeline |-> ReconstructBalanceTimeline(EmptyDict, tournaments),
         all_strategies |-> tree.all_strategies,
         nodes |-> Range(tree.G.nodes)]

---------------------------------------------------------------------------
(* Selection of the tournament list by load_evolution_data, checked under  *)
(* Spec.                                                                   *)

\* The length of the list the snapshot's keys select.
ListByKeyPresence ==
    IF "tournamentData" \in DOMAIN data THEN data["tournamentData"]
    ELSE IF "tournaments" \in DOMAIN data THEN data["tournaments"]
    ELSE 0

\* C25: load_evolution_data selects the tournament list by key presence:
\* the 'tournamentData' list whenever that key is present, even empty with
\* 'tournaments' present too, the 'tournaments' list only when
\* 'tournamentData' is absent; the reported count is 'completedTournaments'
\* when present, otherwise the length of the selected list.
C25_ListSelectedByKeyPresence ==
    pc # "start" =>
        /\ TournamentCount = ListByKeyPresence
        /\ tournaments_completed =
               IF "completedTournaments" \in DOMAIN data
               THEN data["completedTournaments"]
               ELSE ListByKeyPresence

\* C25 witness: a snapshot with an empty 'tournamentData', a non-empty
\* 'tournaments' and a 'completedTournaments' has been loaded.
C25_Witness ==
    /\ pc # "start"
    /\ {"tournamentData", "tournaments", "completedTournaments"} \subseteq DOMAIN data
    /\ data["tournamentData"] = 0
    /\ data["tournaments"] > 0
    /\ TournamentCount = 0
    /\ tournaments_completed = COMPLETED_GIVEN

---------------------------------------------------------------------------
(* The GameNumber key and the final standings, checked under SpecStandings. *)

\* (tournament, game) order of two rows.
PairBefore(r1, r2) ==
    \/ r1.Tournament < r2.Tournament
    \/ r1.Tournament = r2.Tournament /\ r1.Game < r2.Game

\* The rows that no other row follows in (tournament, game) order.
LastPoints == { r \in Range(rows) : \A q \in Range(rows) : ~PairBefore(r, q) }

\* C26: GameNumber = tournament * 10 + game is distinct for distinct
\* (tournament, game) pairs and keeps their order, so the final balance of
\* the final standings is the balance of the strategy's last data point in
\* (tournament, game) order, for any number of games per tournament.
C26_FinalBalanceIsLastPoint ==
    /\ pc \in {"df_built", "standings_done"} =>
           \A r1, r2 \in Range(rows) :
               PairBefore(r1, r2) => r1.GameNumber < r2.GameNumber
    /\ pc = "standings_done" =>
           \A i \in 1..Len(report) :
               \E r \in LastPoints : report[i].Final_Balance = r.Balance

---------------------------------------------------------------------------
(* The performance columns of the details table, checked under SpecDetails. *)

\* The entries the tournament at a position records for a strategy.
ListedAt(pos, id) ==
    LET details == Get(tournament_data[pos], "evolutionDetails", EmptyDict)
        survivors == Get(details, "survivors", <<>>)
        eliminated == Get(details, "eliminated", <<>>)
    IN  { [final_balance |-> BalanceText(e.balance, FALSE),
           win_rate |-> PercentText(e.winRate)] :
            e \in { x \in Range(survivors) : x.id = id } }
        \cup
        { [final_balance |-> BalanceText(e.finalBalance, TRUE),
           win_rate |-> PercentText(e.winRate)] :
            e \in { x \in Range(eliminated) : x.id = id } }

\* The positions of the tournaments that list a strategy.
ListingPositions(id) ==
    { pos \in 1..Len(tournament_data) : ListedAt(pos, id) # {} }

\* C27: the final balance and win rate shown for a strategy are those of
\* the latest tournament (highest position in the list) whose
\* evolutionDetails lists it among survivors or eliminated; they are
\* 'Unknown' only when no tournament lists it.
C27_ShowsLatestListing ==
    \A i \in 1..Len(report) :
        LET listing == ListingPositions(report[i].id)
            shown == [final_balance |-> report[i].final_balance,
                      win_rate |-> report[i].win_rate]
        IN  IF listing = {}
            THEN shown = NoPerformance
            ELSE \E pos \in listing :
                     /\ \A q \in listing : q <= pos
                     /\ shown \in ListedAt(pos, report[i].id)

---------------------------------------------------------------------------
(* Completion of visualize_evolution_comprehensive, checked under Spec. *)

\* C28: visualize_evolution_comprehensive does not raise for a snapshot
\* that passes its insufficient-data check (non-empty timeline map and
\* non-empty tournament list), including one whose timelines all have zero
\* data points: the balance chart is then skipped and the run goes on to
\* the lineage tree and the details table.
C28_CompletesWithoutRaising ==
    (pc \notin {"start", "loaded", "returned_none"}
        /\ ~InsufficientData(balance_timeline, TournamentCount)) =>
            /\ pc # "raised"
            /\ NoDataPoints(balance_timeline) => results = <<>>
=============================================================================
